---- MODULE Spec2Model ----
(***************************************************************************)
(* Stock-Exchange-V2: the indicator library (modules/indicators.py), the   *)
(* analysis session (modules/technical_analysis.py) and the indicator and  *)
(* signal code of app.py.                                                  *)
(*                                                                         *)
(* Numbers.  The program computes on IEEE doubles held in pandas Series    *)
(* and numpy arrays.  A double is modelled as a record: a number with      *)
(* Scale units per 1.0 (fixed point, results rounded down to a unit), NaN, *)
(* or a signed infinity.  Comparisons with NaN are false and arithmetic on *)
(* NaN gives NaN, as in Python.                                            *)
(***************************************************************************)
EXTENDS Integers, Sequences, FiniteSets, TLC

VARIABLES
    high, low, close,      \* the series handed to a calculator (pd.Series)
    volume,                \* the volume series handed to calculate_volume_indicators
    num_levels,            \* calculate_support_resistance's parameter
    cache,                 \* a FastCache: its _memory, its _access_times and its files
    clock,                 \* the time, read by datetime.now() and time.time()
    cacheOut,              \* the last FastCache call and what it returned
    sources,               \* the fetcher's DataSource objects, by name
    fetchOut,              \* the last OptimizedFetcher call: what it returned and the
                           \* sources it went through, in order
    manager,               \* a CacheManager: its memory_cache and its files
    latest,                \* history: per key, the last set that no delete or clear followed
    managerOut,            \* the last CacheManager call and what it returned
    retry,                 \* a call of a function wrapped by retry_operation
    acceleration, maximum, \* calculate_parabolic_sar's parameters
    sar, trend, af, ep,    \* calculate_parabolic_sar's locals
    sarI,                  \* the loop index i of calculate_parabolic_sar (0: not started)
    sarRaw,                \* history: sar[i] as first computed at each bar, before the clamp
    sarFlips,              \* history: the bars at which trend changed sign
    period, std_dev,       \* a calculator's period and band multiplier
    macdPeriods,           \* calculate_macd's <<fast, slow, signal>>
    out,                   \* the last calculator call: its name and what it returned
    frame,                 \* the caller's DataFrame, handed to FastTechnicalAnalysis(df)
    df, results,           \* FastTechnicalAnalysis: self.df, self.results
    calculated,            \* history: calculate_all has been called on the session
    calls,                 \* history: the number of calls of calculate_all
    returned               \* the last call on the session or of analyse, and its result

seriesVars == <<high, low, close, volume>>
sarVars == <<acceleration, maximum, sar, trend, af, ep, sarI, sarRaw, sarFlips>>
indVars == <<period, std_dev, macdPeriods, out>>
sessVars == <<frame, df, results, calculated, calls, returned>>
levelVars == <<num_levels>>
cacheVars == <<cache, clock, cacheOut>>
fetchVars == <<sources, fetchOut>>
managerVars == <<manager, latest, managerOut>>
retryVars == <<retry>>
restVars == <<levelVars, cacheVars, fetchVars, managerVars, retryVars>>
vars == <<seriesVars, sarVars, indVars, sessVars, restVars>>

----------------------------------------------------------------------------
(* Bounds of the model *)

Scale == 1000
MaxSarBars == 4
MaxBars == 4
MaxPeriod == 3
MaxTail == 2
MaxCalls == 2
MaxLevelBars == 2
\* FastCache._max_memory_items, 100 in the program (data_fetcher.py line 52)
MaxMemoryItems == 2
\* the calls a FastCache serves, one unit of time each
MaxClock == 5
\* the calls an OptimizedFetcher serves, one unit of time each
MaxFetches == 6
\* Config.CACHE_DURATION_HISTORY and CACHE_DURATION_INFO (6 and 24 hours), in
\* units of the clock
CacheDurationHistory == 2
CacheDurationInfo == 8
\* DataSource: the error count at which a source is disabled (lines 150, 154)
ErrorLimit == 5
\* the seconds a CacheManager is watched for
MaxSeconds == 3
\* CacheManager.default_ttl (300 seconds in the program), in units of the clock
DefaultTtl == 2
\* the greatest max_retries of retry_operation
MaxRetries == 4

----------------------------------------------------------------------------
(* Doubles *)

Num(v) == [k |-> "num", v |-> v]
NaN == [k |-> "nan", v |-> 0]
PInf == [k |-> "inf", v |-> 1]
NInf == [k |-> "inf", v |-> -1]
FromInt(i) == Num(i * Scale)
\* p/q as a double, e.g. 0.02 is Frac(2, 100)
Frac(p, q) == Num((p * Scale) \div q)

IsNaN(x) == x.k = "nan"
IsNum(x) == x.k = "num"
IsInf(x) == x.k = "inf"
Sign(v) == IF v > 0 THEN 1 ELSE IF v < 0 THEN -1 ELSE 0
Rank(x) == IF IsInf(x) THEN x.v ELSE 0

FLt(x, y) ==
    /\ ~IsNaN(x)
    /\ ~IsNaN(y)
    /\ IF IsNum(x) /\ IsNum(y) THEN x.v < y.v ELSE Rank(x) < Rank(y)
FGt(x, y) == FLt(y, x)
FEq(x, y) == ~IsNaN(x) /\ ~IsNaN(y) /\ x = y
FLe(x, y) == FLt(x, y) \/ FEq(x, y)
FGe(x, y) == FLe(y, x)

FNeg(x) == IF IsNaN(x) THEN NaN ELSE [k |-> x.k, v |-> 0 - x.v]
FAdd(x, y) ==
    IF IsNaN(x) \/ IsNaN(y) THEN NaN
    ELSE IF IsNum(x) /\ IsNum(y) THEN Num(x.v + y.v)
    ELSE IF IsInf(x) /\ IsInf(y) THEN (IF x.v = y.v THEN x ELSE NaN)
    ELSE IF IsInf(x) THEN x ELSE y
FSub(x, y) == FAdd(x, FNeg(y))

\* floor(a * b / Scale), computed without leaving 32 bits
MulDown(a, b) == a * (b \div Scale) + ((a * (b % Scale)) \div Scale)
\* floor(a * Scale / b) for b > 0, computed without leaving 32 bits
DivDown(a, b) == (a \div b) * Scale + (((a % b) * Scale) \div b)

FMul(x, y) ==
    IF IsNaN(x) \/ IsNaN(y) THEN NaN
    ELSE IF IsNum(x) /\ IsNum(y) THEN Num(MulDown(x.v, y.v))
    ELSE IF Sign(x.v) * Sign(y.v) = 0 THEN NaN
    ELSE [k |-> "inf", v |-> Sign(x.v) * Sign(y.v)]
\* a division that yields 0 on a zero divisor
FDivOrZero(x, y) ==
    IF IsNaN(x) \/ IsNaN(y) THEN NaN
    ELSE IF IsInf(x) /\ IsInf(y) THEN NaN
    ELSE IF IsInf(y) THEN Num(0)
    ELSE IF IsInf(x) THEN [k |-> "inf", v |-> x.v * (IF y.v < 0 THEN -1 ELSE 1)]
    ELSE IF y.v = 0 THEN Num(0)
    ELSE IF y.v > 0 THEN Num(DivDown(x.v, y.v))
    ELSE Num(DivDown(0 - x.v, 0 - y.v))
FDiv(x, y) ==
    IF IsNaN(x) \/ IsNaN(y) THEN NaN
    ELSE IF IsInf(x) /\ IsInf(y) THEN NaN
    ELSE IF IsInf(y) THEN Num(0)
    ELSE IF IsInf(x) THEN [k |-> "inf", v |-> x.v * (IF y.v < 0 THEN -1 ELSE 1)]
    ELSE IF y.v = 0 THEN (IF x.v = 0 THEN NaN ELSE [k |-> "inf", v |-> Sign(x.v)])
    ELSE IF y.v > 0 THEN Num(DivDown(x.v, y.v))
    ELSE Num(DivDown(0 - x.v, 0 - y.v))
\* Python's min(a, b): b if b < a else a
\* a sum that is not capped
Uncapped(a, b) == a
PyMin(a, b) == IF FLt(b, a) THEN b ELSE a

RECURSIVE Extend(_, _, _)
\* the loop "for i in range(len(acc), n): acc.append(Op(acc, i))", positions
\* counted from 1; the range is halved so that the evaluation stays shallow
Extend(Op(_, _), acc, n) ==
    IF Len(acc) >= n THEN acc
    ELSE IF Len(acc) + 1 = n THEN Append(acc, Op(acc, n))
    ELSE Extend(Op, Extend(Op, acc, (Len(acc) + n) \div 2), n)

\* the series of n positions that holds F(i) at position i
Series(n, F(_)) == Extend(LAMBDA acc, i : F(i), <<>>, n)

\* pd.Series(index=..., dtype=float): every position NaN
AllNaN(n) == Series(n, LAMBDA i : NaN)
\* s with position i (1-based) set to x
Put(s, i, x) == [s EXCEPT ![i] = x]

----------------------------------------------------------------------------
(* pandas and numpy operations on series.  A series is a sequence of       *)
(* doubles; position i of the program is position i + 1 here.              *)

RECURSIVE SumTo(_, _, _)
\* s[a] + ... + s[b]
SumTo(s, a, b) ==
    IF a > b THEN Num(0)
    ELSE IF a = b THEN s[a]
    ELSE FAdd(SumTo(s, a, (a + b) \div 2), SumTo(s, (a + b) \div 2 + 1, b))
\* x / n for a count n
DivInt(x, n) == FDiv(x, FromInt(n))

\* the running totals of s up to position n: the sum of its numbers, and how many
\* of its positions are not numbers
Running(s, n) ==
    Extend(LAMBDA r, i :
               LET last == IF i = 1 THEN [sum |-> 0, bad |-> 0] ELSE r[i - 1]
                   x == s[i]
               IN  IF IsNum(x) THEN [sum |-> last.sum + x.v, bad |-> last.bad]
                   ELSE [sum |-> last.sum, bad |-> last.bad + 1],
           <<>>, n)
\* the totals of window s[a..b] from the running totals r
Window(r, a, b) ==
    IF a <= 1 THEN r[b]
    ELSE [sum |-> r[b].sum - r[a - 1].sum, bad |-> r[b].bad - r[a - 1].bad]

\* Series.diff()
Diff(s) == Series(Len(s), LAMBDA i : IF i = 1 THEN NaN ELSE FSub(s[i], s[i - 1]))
\* Series.rolling(window=w).mean(): NaN until w observations, all of them numbers
RollingMean(s, w) ==
    LET r == Running(s, Len(s))
    IN  Series(Len(s), LAMBDA i :
            IF i < w \/ Window(r, i - w + 1, i).bad > 0 THEN NaN
            ELSE DivInt(Num(Window(r, i - w + 1, i).sum), w))
\* delta.where(delta > 0, 0)
WherePositive(s) == Series(Len(s), LAMBDA i : IF FGt(s[i], Num(0)) THEN s[i] ELSE Num(0))
\* delta.where(delta < 0, 0)
WhereNegative(s) == Series(Len(s), LAMBDA i : IF FLt(s[i], Num(0)) THEN s[i] ELSE Num(0))
\* Series.replace(0, np.nan)
ReplaceZeroByNaN(s) == Series(Len(s), LAMBDA i : IF FEq(s[i], Num(0)) THEN NaN ELSE s[i])
SNeg(s) == Series(Len(s), LAMBDA i : FNeg(s[i]))
SAdd(s, t) == Series(Len(s), LAMBDA i : FAdd(s[i], t[i]))
\* a variant of the subtraction of two series that adds them
SPlus(s, t) == Series(Len(s), LAMBDA i : FAdd(s[i], t[i]))
SSub(s, t) == Series(Len(s), LAMBDA i : FSub(s[i], t[i]))
SDiv(s, t) == Series(Len(s), LAMBDA i : FDiv(s[i], t[i]))
\* s * k for a number k
SScale(s, k) == Series(Len(s), LAMBDA i : FMul(s[i], k))
\* 100 - (100 / (1 + rs))
RsiOfRs(rs) == FSub(FromInt(100), FDiv(FromInt(100), FAdd(FromInt(1), rs)))

\* Series.ewm(span=span, adjust=False).mean() up to position n:
\* y[1] = x[1], y[i] = (1 - a) * y[i-1] + a * x[i] with a = 2 / (span + 1)
Ewm(s, span, n) ==
    Extend(LAMBDA y, i :
               IF i = 1 THEN s[1]
               ELSE DivInt(FAdd(FMul(FromInt(span - 1), y[i - 1]), FMul(FromInt(2), s[i])),
                           span + 1),
           <<>>, n)

RECURSIVE SqrtSearch(_, _, _)
\* the largest r in lo..hi with r * r <= n
SqrtSearch(n, lo, hi) ==
    IF lo >= hi THEN lo
    ELSE LET mid == (lo + hi + 1) \div 2
         IN  IF mid * mid <= n THEN SqrtSearch(n, mid, hi) ELSE SqrtSearch(n, lo, mid - 1)
\* the square root of a double x >= 0, rounded down to a unit
FSqrt(x) ==
    IF IsNaN(x) THEN NaN
    ELSE IF IsInf(x) THEN (IF x.v > 0 THEN PInf ELSE NaN)
    ELSE IF x.v < 0 THEN NaN
    ELSE Num(SqrtSearch(x.v * Scale, 0, 46340))

RECURSIVE SumSq(_, _, _, _)
\* the sum of the squared deviations of s[a..b] from m
SumSq(s, a, b, m) ==
    IF a > b THEN Num(0)
    ELSE IF a = b THEN LET d == FSub(s[a], m) IN FMul(d, d)
    ELSE FAdd(SumSq(s, a, (a + b) \div 2, m), SumSq(s, (a + b) \div 2 + 1, b, m))
\* Series.rolling(window=w).std(): the sample deviation (ddof = 1)
RollingStd(s, w) ==
    LET r == Running(s, Len(s))
    IN  Series(Len(s), LAMBDA i :
            IF i < w \/ Window(r, i - w + 1, i).bad > 0 THEN NaN
            ELSE LET m == DivInt(Num(Window(r, i - w + 1, i).sum), w)
                 IN  FSqrt(DivInt(SumSq(s, i - w + 1, i, m), w - 1)))
\* np.std(s[a..b]): the population deviation (ddof = 0)
NpStd(s, a, b) ==
    LET m == DivInt(SumTo(s, a, b), b - a + 1)
    IN  FSqrt(DivInt(SumSq(s, a, b, m), b - a + 1))

----------------------------------------------------------------------------
(* modules/indicators.py: class TechnicalIndicators *)

\* a variant of TI_rsi_loss that keeps the sign of the losses (line 21 without its minus)
TI_rsi_loss_signed(prices, n) == RollingMean(WhereNegative(Diff(prices)), n)
\* calculate_rsi, lines 19-21: the rolling averages of the gains and of the losses
TI_rsi_gain(prices, n) == RollingMean(WherePositive(Diff(prices)), n)
TI_rsi_loss(prices, n) == RollingMean(SNeg(WhereNegative(Diff(prices))), n)
\* calculate_rsi(prices, period)
TI_calculate_rsi(prices, n) ==
    IF Len(prices) < n THEN AllNaN(Len(prices))
    ELSE LET gain == TI_rsi_gain(prices, n)
             loss == ReplaceZeroByNaN(TI_rsi_loss(prices, n))
             rs == SDiv(gain, loss)
         IN  Series(Len(prices), LAMBDA i : RsiOfRs(rs[i]))

\* calculate_macd(prices, fast, slow, signal)
TI_calculate_macd(prices, fast, slow, signal) ==
    IF Len(prices) < slow
    THEN [macd |-> AllNaN(Len(prices)), signal |-> AllNaN(Len(prices)),
          histogram |-> AllNaN(Len(prices))]
    ELSE LET exp1 == Ewm(prices, fast, Len(prices))
             exp2 == Ewm(prices, slow, Len(prices))
             macd_line == SSub(exp1, exp2)
             signal_line == Ewm(macd_line, signal, Len(prices))
         IN  [macd |-> macd_line, signal |-> signal_line,
              histogram |-> SSub(macd_line, signal_line)]

\* calculate_bollinger_bands(prices, period, std_dev)
TI_calculate_bollinger_bands(prices, n, k) ==
    IF Len(prices) < n
    THEN [middle |-> AllNaN(Len(prices)), upper |-> AllNaN(Len(prices)),
          lower |-> AllNaN(Len(prices)), bandwidth |-> AllNaN(Len(prices)),
          percent_b |-> AllNaN(Len(prices))]
    ELSE LET middle == RollingMean(prices, n)
             std == RollingStd(prices, n)
             upper == SAdd(middle, SScale(std, k))
             lower == SSub(middle, SScale(std, k))
         IN  [middle |-> middle, upper |-> upper, lower |-> lower,
              bandwidth |-> SScale(SDiv(SSub(upper, lower), middle), FromInt(100)),
              percent_b |-> SDiv(SSub(prices, lower), SSub(upper, lower))]

\* calculate_moving_averages(prices, periods), the series of one period
TI_calculate_moving_averages(prices, n) ==
    IF Len(prices) >= n THEN RollingMean(prices, n) ELSE AllNaN(Len(prices))

\* abs(x)
FAbs(x) == IF IsNaN(x) THEN NaN ELSE [k |-> x.k, v |-> IF x.v < 0 THEN 0 - x.v ELSE x.v]
\* Series.shift(): position i holds the value of the position before
Shift(s) == Series(Len(s), LAMBDA i : IF i = 1 THEN NaN ELSE s[i - 1])
\* a maximum that is undefined as soon as one of the two values is
MaxPropagate(x, y) == IF IsNaN(x) \/ IsNaN(y) THEN NaN ELSE IF FGt(y, x) THEN y ELSE x
\* DataFrame.max(axis=1) on two values: undefined values are skipped
MaxSkipNaN(x, y) == IF IsNaN(x) THEN y ELSE IF IsNaN(y) THEN x ELSE IF FGt(y, x) THEN y ELSE x
\* the true range of calculate_atr and calculate_adx:
\* pd.concat([tr1, tr2, tr3], axis=1).max(axis=1)
TI_true_range(hi, lo, cl) ==
    LET prev == Shift(cl)
    IN  Series(Len(hi), LAMBDA i :
            MaxSkipNaN(MaxSkipNaN(FSub(hi[i], lo[i]), FAbs(FSub(hi[i], prev[i]))),
                       FAbs(FSub(lo[i], prev[i]))))
\* calculate_atr(high, low, close, period)
TI_calculate_atr(hi, lo, cl, n) ==
    IF Len(hi) < n THEN AllNaN(Len(hi))
    ELSE RollingMean(TI_true_range(hi, lo, cl), n)

RECURSIVE MinOver(_, _, _)
\* the minimum of s[a..b], undefined when one of them is
MinOver(s, a, b) ==
    IF a = b THEN s[a]
    ELSE LET x == MinOver(s, a, (a + b) \div 2)
             y == MinOver(s, (a + b) \div 2 + 1, b)
         IN  IF IsNaN(x) \/ IsNaN(y) THEN NaN ELSE IF FLt(y, x) THEN y ELSE x
\* Series.rolling(window=w).min()
RollingMin(s, w) == Series(Len(s), LAMBDA i : IF i < w THEN NaN ELSE MinOver(s, i - w + 1, i))
\* Series.rolling(window=w).max()
RollingMax(s, w) == SNeg(RollingMin(SNeg(s), w))
\* calculate_stochastic, line 119: %K
TI_stochastic_k(hi, lo, cl, n) ==
    LET lowest_low == RollingMin(lo, n)
        highest_high == RollingMax(hi, n)
    IN  Series(Len(hi), LAMBDA i :
            FMul(FromInt(100), FDiv(FSub(cl[i], lowest_low[i]),
                                    FSub(highest_high[i], lowest_low[i]))))
\* calculate_stochastic(high, low, close, k_period, d_period)
TI_calculate_stochastic(hi, lo, cl, k_period, d_period) ==
    IF Len(hi) < k_period THEN [k |-> AllNaN(Len(hi)), d |-> AllNaN(Len(hi))]
    ELSE LET k == TI_stochastic_k(hi, lo, cl, k_period)
         IN  [k |-> k, d |-> RollingMean(k, d_period)]

\* plus_dm[plus_dm < 0] = 0: the assignment lands on the series diff() built
ZeroWhereNegative(s) == Series(Len(s), LAMBDA i : IF FLt(s[i], Num(0)) THEN Num(0) ELSE s[i])
\* minus_dm[minus_dm > 0] = 0
ZeroWherePositive(s) == Series(Len(s), LAMBDA i : IF FGt(s[i], Num(0)) THEN Num(0) ELSE s[i])
\* abs(series)
SAbs(s) == Series(Len(s), LAMBDA i : FAbs(s[i]))
\* calculate_adx, lines 274-294: the directional indicators
TI_adx_di(hi, lo, cl, n) ==
    LET plus_dm == ZeroWhereNegative(Diff(hi))
        minus_dm == SAbs(ZeroWherePositive(Diff(lo)))
        tr_smooth == RollingMean(TI_true_range(hi, lo, cl), n)
    IN  [plus_di |-> SScale(SDiv(RollingMean(plus_dm, n), tr_smooth), FromInt(100)),
         minus_di |-> SScale(SDiv(RollingMean(minus_dm, n), tr_smooth), FromInt(100))]
\* calculate_adx, line 297: dx = 100 * abs(plus_di - minus_di) / (plus_di + minus_di)
TI_adx_dx(plus_di, minus_di) ==
    Series(Len(plus_di), LAMBDA i :
        FDiv(FMul(FromInt(100), FAbs(FSub(plus_di[i], minus_di[i]))),
             FAdd(plus_di[i], minus_di[i])))
\* calculate_adx(high, low, close, period)
TI_calculate_adx(hi, lo, cl, n) ==
    IF Len(hi) < n * 2
    THEN [adx |-> AllNaN(Len(hi)), plus_di |-> AllNaN(Len(hi)), minus_di |-> AllNaN(Len(hi))]
    ELSE LET di == TI_adx_di(hi, lo, cl, n)
         IN  [adx |-> RollingMean(TI_adx_dx(di.plus_di, di.minus_di), n),
              plus_di |-> di.plus_di, minus_di |-> di.minus_di]

----------------------------------------------------------------------------
(* app.py: class AdvancedTechnicalAnalyzer.  Its results are Python lists; *)
(* None in a list is modelled as NaN.                                      *)

\* np.full(n, 50), [0] * n
Full(n, x) == Series(n, LAMBDA i : x)

\* calculate_rsi, lines 115-117: up and down over seed = deltas[:period]
ATA_rsi_seed(prices, n) ==
    LET deltas == Series(Len(prices) - 1, LAMBDA j : FSub(prices[j + 1], prices[j]))
        m == IF n < Len(deltas) THEN n ELSE Len(deltas)
        ups == Series(m, LAMBDA j : IF FGe(deltas[j], Num(0)) THEN deltas[j] ELSE Num(0))
        downs == Series(m, LAMBDA j : IF FLt(deltas[j], Num(0)) THEN deltas[j] ELSE Num(0))
    IN  [up |-> DivInt(SumTo(ups, 1, m), n),
         down |-> DivInt(FNeg(SumTo(downs, 1, m)), n)]

\* calculate_rsi, lines 123-133: up and down at every position up to i; the
\* positions before the loop starts hold the seed
ATA_rsi_avgs(prices, n, i) ==
    LET seed == ATA_rsi_seed(prices, n)
    IN  Extend(LAMBDA before, j :
                   IF j <= n THEN seed
                   ELSE LET delta == FSub(prices[j], prices[j - 1])
                            upval == IF FGt(delta, Num(0)) THEN delta ELSE Num(0)
                            downval == IF FGt(delta, Num(0)) THEN Num(0) ELSE FNeg(delta)
                        IN  [up |-> DivInt(FAdd(FMul(before[j - 1].up, FromInt(n - 1)),
                                                upval), n),
                             down |-> DivInt(FAdd(FMul(before[j - 1].down, FromInt(n - 1)),
                                                  downval), n)],
               <<>>, i)

\* lines 119 and 134: rs = up / down if down != 0 else 0
ATA_rs(a) == IF a.down # Num(0) THEN FDiv(a.up, a.down) ELSE Num(0)
\* calculate_rsi(prices, period)
ATA_calculate_rsi(prices, n) ==
    IF Len(prices) < n THEN Full(Len(prices), FromInt(50))
    ELSE LET avgs == ATA_rsi_avgs(prices, n, Len(prices))
         IN  Series(Len(prices), LAMBDA i : RsiOfRs(ATA_rs(avgs[i])))

\* calculate_moving_average(prices, period)
ATA_calculate_moving_average(prices, n) ==
    IF Len(prices) < n THEN AllNaN(Len(prices))
    ELSE Series(Len(prices), LAMBDA i :
             IF i < n THEN NaN ELSE DivInt(SumTo(prices, i - n + 1, i), n))

\* calculate_bollinger_bands(prices, period, std_dev)
ATA_calculate_bollinger_bands(prices, n, k) ==
    IF Len(prices) < n
    THEN [upper |-> AllNaN(Len(prices)), middle |-> AllNaN(Len(prices)),
          lower |-> AllNaN(Len(prices))]
    ELSE LET middle_band == ATA_calculate_moving_average(prices, n)
             std(i) == NpStd(prices, i - n + 1, i)
         IN  [upper |-> Series(Len(prices), LAMBDA i :
                           IF i < n \/ IsNaN(middle_band[i]) THEN NaN
                           ELSE FAdd(middle_band[i], FMul(k, std(i)))),
              middle |-> middle_band,
              lower |-> Series(Len(prices), LAMBDA i :
                           IF i < n \/ IsNaN(middle_band[i]) THEN NaN
                           ELSE FSub(middle_band[i], FMul(k, std(i))))]

\* calculate_macd's calculate_ema(data, period) up to position i:
\* ema[i] = (data[i] - ema[i-1]) * multiplier + ema[i-1], multiplier = 2 / (period + 1)
calculate_ema(data, n, i) ==
    Extend(LAMBDA ema, j :
               IF j = 1 THEN data[1]
               ELSE FAdd(DivInt(FMul(FSub(data[j], ema[j - 1]), FromInt(2)), n + 1),
                         ema[j - 1]),
           <<>>, i)

\* calculate_macd(prices, fast_period, slow_period, signal_period)
ATA_calculate_macd(prices, fast, slow, signal) ==
    IF Len(prices) < slow + signal
    THEN [macd |-> Full(Len(prices), Num(0)), signal |-> Full(Len(prices), Num(0)),
          histogram |-> Full(Len(prices), Num(0))]
    ELSE LET ema_fast == calculate_ema(prices, fast, Len(prices))
             ema_slow == calculate_ema(prices, slow, Len(prices))
             macd_line == SSub(ema_fast, ema_slow)
             signal_line == calculate_ema(macd_line, signal, Len(prices))
         IN  [macd |-> macd_line, signal |-> signal_line,
              histogram |-> SSub(macd_line, signal_line)]

----------------------------------------------------------------------------
(* modules/technical_analysis.py: class FastTechnicalAnalysis.  A DataFrame *)
(* is a record: n rows, and col, a map from each column's name to its       *)
(* series.  None is a fourth kind of value beside the doubles.              *)

None == [k |-> "none", v |-> 0]
NoColumns == [c \in {} |-> <<>>]
Has(d, c) == c \in DOMAIN d.col
\* d[c] = s
With(d, c, s) == [d EXCEPT !.col = (c :> s) @@ d.col]
\* (sign * volume).cumsum(): NaN where the term is NaN, which the sum skips
CumSum(s) ==
    LET r == Running(s, Len(s))
    IN  Series(Len(s), LAMBDA i : IF IsNaN(s[i]) THEN NaN ELSE Num(r[i].sum))
\* np.sign
NpSign(x) == IF IsNaN(x) THEN NaN ELSE FromInt(Sign(x.v))

\* a variant of __init__ that keeps the caller's frame itself: self.df = df
FTA_init_shared(d) == [df |-> d, own |-> FALSE]
\* __init__: self.df = df.copy(), an object of the session's own with the
\* values of the caller's frame
FTA_init(d) == [df |-> d, own |-> TRUE]
\* the caller's frame d once the session has written e to self.df: untouched
\* when self.df is the session's own object, the written table when it is d
CallersFrame(d, e) == IF FTA_init(d).own THEN d ELSE e

\* _calculate_moving_averages: one period of the loop
FTA_moving_average(d, n) ==
    IF d.n >= n THEN With(d, IF n = 20 THEN "MA_20" ELSE IF n = 50 THEN "MA_50" ELSE "MA_200",
                          RollingMean(d.col["Close"], n))
    ELSE d
\* _calculate_moving_averages
FTA_calculate_moving_averages(d) ==
    FTA_moving_average(FTA_moving_average(FTA_moving_average(d, 20), 50), 200)

\* _calculate_rsi(period)
FTA_calculate_rsi(d, n) ==
    IF d.n < n THEN d
    ELSE LET delta == Diff(d.col["Close"])
             gain == RollingMean(WherePositive(delta), n)
             loss == SNeg(RollingMean(WhereNegative(delta), n))
             rs == SDiv(gain, ReplaceZeroByNaN(loss))
         IN  With(d, "RSI", Series(d.n, LAMBDA i : RsiOfRs(rs[i])))

\* _calculate_macd
FTA_calculate_macd(d) ==
    LET exp1 == Ewm(d.col["Close"], 12, d.n)
        exp2 == Ewm(d.col["Close"], 26, d.n)
        macd == SSub(exp1, exp2)
        signal == Ewm(macd, 9, d.n)
    IN  With(With(With(d, "MACD", macd), "MACD_Signal", signal),
             "MACD_Hist", SSub(macd, signal))

\* _calculate_bollinger_bands(period, std_dev)
FTA_calculate_bollinger_bands(d, n, k) ==
    LET middle == RollingMean(d.col["Close"], n)
        std == RollingStd(d.col["Close"], n)
        upper == SAdd(middle, SScale(std, k))
        lower == SSub(middle, SScale(std, k))
    IN  With(With(With(With(d, "BB_Middle", middle), "BB_Upper", upper), "BB_Lower", lower),
             "BB_%B", SDiv(SSub(d.col["Close"], lower), SSub(upper, lower)))

\* _calculate_volume_indicators, once self.df['Volume'] has been read
FTA_calculate_volume_indicators(d) ==
    LET vol == d.col["Volume"]
        delta == Diff(d.col["Close"])
        price_diff == Series(d.n, LAMBDA i : NpSign(delta[i]))
        obv == CumSum(Series(d.n, LAMBDA i : FMul(price_diff[i], vol[i])))
    IN  With(With(d, "Volume_MA20", RollingMean(vol, 20)), "OBV", obv)

Signal(type, title) == [type |-> type, title |-> title]
\* the RSI rule with inclusive thresholds
FTA_rsi_signals_inclusive(d) ==
    IF Has(d, "RSI") /\ ~IsNaN(d.col["RSI"][d.n])
    THEN LET rsi == d.col["RSI"][d.n]
         IN  IF FGe(rsi, FromInt(70)) THEN <<Signal("danger", "RSI Surachat")>>
             ELSE IF FLe(rsi, FromInt(30)) THEN <<Signal("success", "RSI Survente")>>
             ELSE <<>>
    ELSE <<>>
\* _generate_signals, lines 101-117
FTA_rsi_signals(d) ==
    IF Has(d, "RSI") /\ ~IsNaN(d.col["RSI"][d.n])
    THEN LET rsi == d.col["RSI"][d.n]
         IN  IF FGt(rsi, FromInt(70)) THEN <<Signal("danger", "RSI Surachat")>>
             ELSE IF FLt(rsi, FromInt(30)) THEN <<Signal("success", "RSI Survente")>>
             ELSE <<>>
    ELSE <<>>
\* _generate_signals, lines 119-134
FTA_macd_signals(d) ==
    IF Has(d, "MACD") /\ Has(d, "MACD_Signal")
    THEN LET macd == d.col["MACD"]
             sig == d.col["MACD_Signal"]
         IN  IF FGt(macd[d.n], sig[d.n]) /\ FLe(macd[d.n - 1], sig[d.n - 1])
             THEN <<Signal("success", "MACD Croisement Haussier")>>
             ELSE IF FLt(macd[d.n], sig[d.n]) /\ FGe(macd[d.n - 1], sig[d.n - 1])
             THEN <<Signal("danger", "MACD Croisement Baissier")>>
             ELSE <<>>
    ELSE <<>>
\* _generate_signals, lines 136-144
FTA_volume_signals(d) ==
    IF Has(d, "Volume") /\ Has(d, "Volume_MA20")
    THEN IF FGt(d.col["Volume"][d.n], FMul(d.col["Volume_MA20"][d.n], Frac(3, 2)))
         THEN <<Signal("warning", "Volume Eleve")>>
         ELSE <<>>
    ELSE <<>>
\* _generate_signals: the list stored in self.results['signals']
FTA_generate_signals(d) ==
    IF d.n < 2 THEN <<>>
    ELSE FTA_rsi_signals(d) \o FTA_macd_signals(d) \o FTA_volume_signals(d)

\* the columns of e among names: those a calculator wrote over the frame's own
Only(e, names) == [c \in names \cap DOMAIN e.col |-> e.col[c]]
\* calculate_all, lines 22-25: the columns of self.df after the four calculators
\* on Close.  A calculator reads Close alone and none writes it, so each is
\* applied to the frame as calculate_all found it and the columns are collected.
FTA_close_columns(d) ==
    Only(FTA_calculate_bollinger_bands(d, 20, FromInt(2)),
         {"BB_Middle", "BB_Upper", "BB_Lower", "BB_%B"})
        @@ Only(FTA_calculate_macd(d), {"MACD", "MACD_Signal", "MACD_Hist"})
        @@ Only(FTA_calculate_rsi(d, 14), {"RSI"})
        @@ Only(FTA_calculate_moving_averages(d), {"MA_20", "MA_50", "MA_200"})
        @@ d.col
\* calculate_all, lines 22-26: the columns of self.df after all five calculators
FTA_all_columns(d) ==
    Only(FTA_calculate_volume_indicators(d), {"Volume_MA20", "OBV"}) @@ FTA_close_columns(d)
\* a variant of calculate_all without the except clause of lines 30-32: the
\* KeyError of a missing column reaches the caller
FTA_calculate_all_reraise(d, res) ==
    IF ~Has(d, "Close") \/ ~Has(d, "Volume") THEN [df |-> d, results |-> res, raised |-> TRUE]
    ELSE [df |-> [d EXCEPT !.col = FTA_all_columns(d)],
          results |-> ("signals" :> <<>>) @@ res,
          raised |-> FALSE]
\* a variant of calculate_all whose signal generator extends the list of the
\* call before instead of starting from signals = []
FTA_calculate_all_accumulate(d, res) ==
    IF ~Has(d, "Close") THEN [df |-> d, results |-> res, raised |-> FALSE]
    ELSE IF ~Has(d, "Volume") THEN [df |-> [d EXCEPT !.col = FTA_close_columns(d)],
                                    results |-> res, raised |-> FALSE]
    ELSE [df |-> [d EXCEPT !.col = FTA_all_columns(d)],
          results |-> ("signals" :> ((IF "signals" \in DOMAIN res THEN res["signals"] ELSE <<>>)
                                     \o FTA_generate_signals([d EXCEPT !.col = FTA_all_columns(d)])))
                      @@ res,
          raised |-> FALSE]
\* calculate_all: self.df and self.results when it returns, and whether it
\* raised.  A missing column raises KeyError inside the try block, which the
\* except clause (lines 30-32) logs before it returns self.df: the columns written
\* before the error stay, the steps after it (the signals) are not run, and
\* nothing is raised to the caller.
FTA_calculate_all(d, res) ==
    IF ~Has(d, "Close") THEN [df |-> d, results |-> res, raised |-> FALSE]
    ELSE IF ~Has(d, "Volume") THEN [df |-> [d EXCEPT !.col = FTA_close_columns(d)],
                                    results |-> res, raised |-> FALSE]
    ELSE [df |-> [d EXCEPT !.col = FTA_all_columns(d)],
          results |-> ("signals" :> FTA_generate_signals([d EXCEPT !.col = FTA_all_columns(d)]))
                      @@ res,
          raised |-> FALSE]

\* latest.get(c, 0) if c in latest else None
FTA_latest(d, c) == IF Has(d, c) THEN d.col[c][d.n] ELSE None
\* a variant of get_summary without the guard of lines 150-151: iloc[-1] raises
\* IndexError on a frame of no rows
FTA_get_summary_unguarded(d, res) ==
    IF d.n = 0 \/ ~Has(d, "Close") THEN [raised |-> TRUE, val |-> NoColumns]
    ELSE [raised |-> FALSE,
          val |-> [last_price |-> d.col["Close"][d.n],
                   signals |-> IF "signals" \in DOMAIN res THEN res["signals"] ELSE <<>>]]
\* get_summary: the mapping returned; raised when latest['Close'] is a KeyError
FTA_get_summary(d, res) ==
    IF d.n < 2 THEN [raised |-> FALSE, val |-> NoColumns]
    ELSE IF ~Has(d, "Close") THEN [raised |-> TRUE, val |-> NoColumns]
    ELSE IF Has(d, "Volume_MA20") /\ ~Has(d, "Volume") THEN [raised |-> TRUE, val |-> NoColumns]
    ELSE [raised |-> FALSE,
          val |-> [last_price |-> d.col["Close"][d.n],
                   rsi |-> FTA_latest(d, "RSI"),
                   macd |-> FTA_latest(d, "MACD"),
                   bb_position |-> FTA_latest(d, "BB_%B"),
                   volume_ratio |-> IF Has(d, "Volume_MA20")
                                    THEN FDiv(d.col["Volume"][d.n], d.col["Volume_MA20"][d.n])
                                    ELSE None,
                   signals |-> IF "signals" \in DOMAIN res THEN res["signals"] ELSE <<>>]]

----------------------------------------------------------------------------
(* app.py: analyse, lines 302-358: the indicators and the signal list *)

\* lines 328-335
analyse_rsi_signals(rsi_values) ==
    LET current_rsi == rsi_values[Len(rsi_values)]
    IN  IF FGt(current_rsi, FromInt(70)) THEN <<Signal("danger", "RSI Surachat")>>
        ELSE IF FLt(current_rsi, FromInt(30)) THEN <<Signal("success", "RSI Sous-vente")>>
        ELSE <<>>
\* lines 338-344
analyse_trend_signals(ma20_values, ma50_values) ==
    LET ma20 == ma20_values[Len(ma20_values)]
        ma50 == ma50_values[Len(ma50_values)]
    IN  IF ~IsNaN(ma20) /\ ~IsNaN(ma50)
        THEN IF FGt(ma20, ma50) THEN <<Signal("success", "Tendance Haussiere")>>
             ELSE <<Signal("warning", "Tendance Baissiere")>>
        ELSE <<>>
\* lines 347-358
analyse_macd_signals(macd_data) ==
    LET n == Len(macd_data.macd)
    IN  IF n > 1
        THEN IF FLt(macd_data.macd[n - 1], macd_data.signal[n - 1])
                /\ FGt(macd_data.macd[n], macd_data.signal[n])
             THEN <<Signal("success", "Signal MACD")>>
             ELSE IF FGt(macd_data.macd[n - 1], macd_data.signal[n - 1])
                     /\ FLt(macd_data.macd[n], macd_data.signal[n])
             THEN <<Signal("danger", "Signal MACD")>>
             ELSE <<>>
        ELSE <<>>
\* analyse on the closes of the frame get_stock_data returned.  get_stock_data
\* raises on an empty frame (line 226); "if rsi_values:" raises ValueError on the
\* array np.full(n, 50) of 2 to 13 elements (line 328).  Either ends in the except
\* clause of line 440.
analyse(closes) ==
    IF Len(closes) = 0 \/ (Len(closes) >= 2 /\ Len(closes) < 14)
    THEN [raised |-> TRUE, val |-> <<>>]
    ELSE [raised |-> FALSE,
          val |-> analyse_rsi_signals(ATA_calculate_rsi(closes, 14))
                  \o analyse_trend_signals(ATA_calculate_moving_average(closes, 20),
                                           ATA_calculate_moving_average(closes, 50))
                  \o analyse_macd_signals(ATA_calculate_macd(closes, 12, 26, 9))]

----------------------------------------------------------------------------
(* TechnicalIndicators.calculate_parabolic_sar, one loop iteration per step. *)
(* Positions are 1-based: bar i of the program is position i + 1.            *)

\* the paths a caller may hand in: low <= high at every bar
SarPrices == 1..3
SarPaths ==
    UNION {[1..n -> {b \in SarPrices \X SarPrices : b[1] <= b[2]}] : n \in 0..MaxSarBars}
\* (acceleration, maximum) as units of 1/Scale: the defaults 0.02 and 0.2, and others
SarParams == {<<Frac(2, 100), Frac(2, 10)>>, <<Frac(1, 10), Frac(2, 10)>>,
              <<Frac(1, 2), Frac(1, 2)>>}

SarIdle ==
    /\ acceleration = NaN /\ maximum = NaN
    /\ sar = <<>> /\ trend = 0 /\ af = NaN /\ ep = NaN
    /\ sarI = 0 /\ sarRaw = <<>> /\ sarFlips = <<>>

\* lines 209-216: the early return, or the state before the loop
SarStart ==
    /\ sarI = 0
    /\ trend = 0
    /\ IF Len(high) < 2
       THEN /\ sar' = AllNaN(Len(high))
            /\ trend' = 1
            /\ sarI' = Len(high) + 1
            /\ UNCHANGED <<af, ep>>
       ELSE /\ trend' = 1
            /\ af' = acceleration
            /\ ep' = high[1]
            /\ sar' = Put(AllNaN(Len(high)), 1, low[1])
            /\ sarI' = 2
    /\ sarRaw' = AllNaN(Len(high))
    /\ UNCHANGED <<acceleration, maximum, sarFlips, seriesVars>>

\* a bullish branch that neither holds the SAR under the low nor reverses
SarBullishUnchecked(i) ==
    LET prev_sar == sar[i - 1]
        raw == FAdd(prev_sar, FMul(af, FSub(ep, prev_sar)))
        newExt == FGt(high[i], ep)
    IN  [raw |-> raw,
         sar |-> raw,
         trend |-> 1,
         ep |-> IF newExt THEN high[i] ELSE ep,
         af |-> IF newExt THEN PyMin(FAdd(af, acceleration), maximum) ELSE af]

\* lines 222-239: the bullish branch of the loop body, at position i
SarBullish(i) ==
    LET prev_sar == sar[i - 1]
        raw == FAdd(prev_sar, FMul(af, FSub(ep, prev_sar)))
        clamped == IF FGt(raw, low[i]) THEN low[i] ELSE raw
        newExt == FGt(high[i], ep)
        ep1 == IF newExt THEN high[i] ELSE ep
        af1 == IF newExt THEN PyMin(FAdd(af, acceleration), maximum) ELSE af
        flip == FGt(clamped, low[i])
    IN  [raw |-> raw,
         sar |-> IF flip THEN ep1 ELSE clamped,
         trend |-> IF flip THEN -1 ELSE 1,
         ep |-> IF flip THEN low[i] ELSE ep1,
         af |-> IF flip THEN acceleration ELSE af1]

\* lines 241-258: the bearish branch of the loop body, at position i
SarBearish(i) ==
    LET prev_sar == sar[i - 1]
        raw == FAdd(prev_sar, FMul(af, FSub(ep, prev_sar)))
        clamped == IF FLt(raw, high[i]) THEN high[i] ELSE raw
        newExt == FLt(low[i], ep)
        ep1 == IF newExt THEN low[i] ELSE ep
        af1 == IF newExt THEN PyMin(FAdd(af, acceleration), maximum) ELSE af
        flip == FLt(clamped, high[i])
    IN  [raw |-> raw,
         sar |-> IF flip THEN ep1 ELSE clamped,
         trend |-> IF flip THEN 1 ELSE -1,
         ep |-> IF flip THEN high[i] ELSE ep1,
         af |-> IF flip THEN acceleration ELSE af1]

\* lines 218-258: one iteration of the loop
SarStep ==
    /\ trend # 0
    /\ sarI >= 2
    /\ sarI <= Len(high)
    /\ LET r == IF trend = 1 THEN SarBullish(sarI) ELSE SarBearish(sarI)
       IN  /\ sar' = Put(sar, sarI, r.sar)
           /\ sarRaw' = Put(sarRaw, sarI, r.raw)
           /\ trend' = r.trend
           /\ ep' = r.ep
           /\ af' = r.af
           /\ sarFlips' = IF r.trend # trend THEN Append(sarFlips, sarI) ELSE sarFlips
    /\ sarI' = sarI + 1
    /\ UNCHANGED <<acceleration, maximum, seriesVars>>

\* line 260: the loop has ended and sar is returned
SarDone == trend # 0 /\ sarI > Len(high)

NoCall == [fn |-> "none", ret |-> <<>>, loc |-> <<>>]
IndIdle == period = 0 /\ std_dev = 0 /\ macdPeriods = <<>> /\ out = NoCall
NoFrame == [n |-> 0, col |-> NoColumns]
NothingReturned == [op |-> "none", raised |-> FALSE, val |-> <<>>]
SessIdle ==
    /\ frame = NoFrame /\ df = NoFrame /\ results = NoColumns
    /\ calculated = FALSE /\ calls = 0 /\ returned = NothingReturned
\* no volume series is handed in
VolumeIdle == volume = <<>>
\* calculate_support_resistance is not called
LevelsIdle == num_levels = 0
\* FastCache.__init__, lines 50-52: nothing in memory (files may be left on the
\* disk by an earlier process: here there are none)
EmptyCache == [memory |-> <<>>, access_times |-> <<>>, disk |-> <<>>]
NoCacheCall == [op |-> "none", key |-> "", ret |-> None, evicted |-> {}]
CacheIdle == cache = EmptyCache /\ clock = 0 /\ cacheOut = NoCacheCall
\* DataSource.__init__, lines 133-138, YFinanceSource.__init__ (_yf = None) and
\* MockSource.__init__ (_cache = {})
NewSources ==
    [yfinance |-> [enabled |-> TRUE, error_count |-> 0, yf |-> "None", errors_seen |-> 0],
     mock |-> [enabled |-> TRUE, error_count |-> 0, cache |-> {}]]
NoFetch == [op |-> "none", key |-> "", ret |-> None, hit |-> FALSE, trace |-> <<>>]
FetchIdle == sources = NewSources /\ fetchOut = NoFetch
\* CacheManager.__init__, lines 24-32: nothing in memory, and no file in the
\* directory after _clean_expired (none was there)
EmptyManager == [memory_cache |-> <<>>, disk |-> <<>>]
NoManagerCall == [op |-> "none", key |-> "", ret |-> "None", time |-> 0]
ManagerIdle == manager = EmptyManager /\ latest = <<>> /\ managerOut = NoManagerCall
\* no wrapped function is called
NoRetry == [max_retries |-> 0, attempt |-> 0, invoked |-> <<>>, status |-> "idle",
            result |-> "None"]
RetryIdle == retry = NoRetry
\* the data services are not used
ServicesIdle == CacheIdle /\ FetchIdle /\ ManagerIdle /\ RetryIdle
\* no indicator is computed
IndicatorsIdle == VolumeIdle /\ LevelsIdle
\* the parts of the program a specification of the indicators leaves alone
RestIdle == IndicatorsIdle /\ ServicesIdle

InitSar ==
    /\ \E p \in SarPaths :
          /\ high = [i \in DOMAIN p |-> FromInt(p[i][2])]
          /\ low = [i \in DOMAIN p |-> FromInt(p[i][1])]
    /\ close = <<>>
    /\ \E q \in SarParams : acceleration = q[1] /\ maximum = q[2]
    /\ sar = <<>> /\ trend = 0 /\ af = NaN /\ ep = NaN
    /\ sarI = 0 /\ sarRaw = <<>> /\ sarFlips = <<>>
    /\ IndIdle
    /\ SessIdle
    /\ RestIdle

NextSar ==
    \/ SarStart /\ UNCHANGED <<indVars, sessVars, restVars>>
    \/ SarStep /\ UNCHANGED <<indVars, sessVars, restVars>>

SpecSar == InitSar /\ [][NextSar]_vars

----------------------------------------------------------------------------
(* The calculators on a close series: one call of one calculator.  out.ret *)
(* is what the call returned, out.loc the locals a property speaks of.     *)

IndPrices == 1..3
\* the constant series: every close equal to 100
ConstantCloses == {[i \in 1..n |-> 100] : n \in 1..MaxBars}
Closes == UNION {[1..n -> IndPrices] : n \in 0..MaxBars} \cup ConstantCloses
\* <<fast, slow, signal>>
MacdPeriods == {<<1, 2, 1>>, <<2, 3, 2>>}
StdDevs == {1, 2}

Call(fn, ret, loc) ==
    /\ out.fn = "none"
    /\ out' = [fn |-> fn, ret |-> ret, loc |-> loc]
    /\ UNCHANGED <<period, std_dev, macdPeriods, seriesVars, sarVars, sessVars, restVars>>

Call_TI_calculate_rsi ==
    Call("TI.calculate_rsi", [rsi |-> TI_calculate_rsi(close, period)],
         [gain |-> TI_rsi_gain(close, period), loss |-> TI_rsi_loss(close, period)])
Call_ATA_calculate_rsi ==
    Call("ATA.calculate_rsi", [rsi |-> ATA_calculate_rsi(close, period)],
         LET avgs == ATA_rsi_avgs(close, period, Len(close))
         IN  [gain |-> Series(Len(close), LAMBDA i : avgs[i].up),
              loss |-> Series(Len(close), LAMBDA i : avgs[i].down)])
Call_TI_calculate_macd ==
    Call("TI.calculate_macd",
         TI_calculate_macd(close, macdPeriods[1], macdPeriods[2], macdPeriods[3]), <<>>)
Call_ATA_calculate_macd ==
    Call("ATA.calculate_macd",
         ATA_calculate_macd(close, macdPeriods[1], macdPeriods[2], macdPeriods[3]), <<>>)
Call_TI_calculate_bollinger_bands ==
    Call("TI.calculate_bollinger_bands",
         TI_calculate_bollinger_bands(close, period, FromInt(std_dev)), <<>>)
Call_ATA_calculate_bollinger_bands ==
    Call("ATA.calculate_bollinger_bands",
         ATA_calculate_bollinger_bands(close, period, FromInt(std_dev)), <<>>)
Call_TI_calculate_moving_averages ==
    Call("TI.calculate_moving_averages",
         [ma |-> TI_calculate_moving_averages(close, period)], <<>>)
Call_ATA_calculate_moving_average ==
    Call("ATA.calculate_moving_average",
         [ma |-> ATA_calculate_moving_average(close, period)], <<>>)
\* a frame whose Close column is prices
FrameOf(prices) == [n |-> Len(prices), col |-> ("Close" :> prices)]
Call_FTA_calculate_bollinger_bands ==
    \E d \in {FTA_calculate_bollinger_bands(FrameOf(close), period, FromInt(std_dev))} :
        Call("FTA._calculate_bollinger_bands",
             [upper |-> d.col["BB_Upper"], middle |-> d.col["BB_Middle"],
              lower |-> d.col["BB_Lower"], percent_b |-> d.col["BB_%B"]], <<>>)
Call_FTA_calculate_macd ==
    \E d \in {FTA_calculate_macd(FrameOf(close))} :
        Call("FTA._calculate_macd",
             [macd |-> d.col["MACD"], signal |-> d.col["MACD_Signal"],
              histogram |-> d.col["MACD_Hist"]], <<>>)

InitInd ==
    /\ \E c \in Closes : close = [i \in DOMAIN c |-> FromInt(c[i])]
    /\ high = <<>> /\ low = <<>>
    /\ period \in 1..MaxPeriod
    /\ std_dev \in StdDevs
    /\ macdPeriods \in MacdPeriods
    /\ out = NoCall
    /\ SarIdle
    /\ SessIdle
    /\ RestIdle

NextInd ==
    \/ Call_TI_calculate_rsi
    \/ Call_ATA_calculate_rsi
    \/ Call_TI_calculate_macd
    \/ Call_ATA_calculate_macd
    \/ Call_TI_calculate_bollinger_bands
    \/ Call_ATA_calculate_bollinger_bands
    \/ Call_TI_calculate_moving_averages
    \/ Call_ATA_calculate_moving_average
    \/ Call_FTA_calculate_bollinger_bands
    \/ Call_FTA_calculate_macd

SpecInd == InitInd /\ [][NextInd]_vars

----------------------------------------------------------------------------
(* The calculators of TechnicalIndicators on bars: one call of              *)
(* calculate_atr, calculate_stochastic or calculate_adx on the high, low    *)
(* and close series of up to MaxBars bars, or of calculate_bollinger_bands  *)
(* on their closes with the default multiplier, 2.                          *)

BarPrices == 1..2
\* a bar: low <= high, and a close at any of the price levels
BarShapes == {b \in [lo : BarPrices, cl : BarPrices, hi : BarPrices] : b.lo <= b.hi}
BarSeries == UNION {[1..n -> BarShapes] : n \in 0..MaxBars}

Call_TI_calculate_atr ==
    Call("TI.calculate_atr", [atr |-> TI_calculate_atr(high, low, close, period)],
         [tr |-> TI_true_range(high, low, close)])
\* d_period is the default, 3
Call_TI_calculate_stochastic ==
    Call("TI.calculate_stochastic", TI_calculate_stochastic(high, low, close, period, 3),
         IF Len(high) < period THEN <<>>
         ELSE [lowest_low |-> RollingMin(low, period),
               highest_high |-> RollingMax(high, period)])
\* dx is kept beside the series returned, where the call computed it
Call_TI_calculate_adx ==
    \E r \in {TI_calculate_adx(high, low, close, period)} :
        Call("TI.calculate_adx", r,
             IF Len(high) < period * 2 THEN <<>>
             ELSE [dx |-> TI_adx_dx(r.plus_di, r.minus_di)])

InitBars ==
    /\ \E b \in BarSeries :
          /\ high = [i \in DOMAIN b |-> FromInt(b[i].hi)]
          /\ low = [i \in DOMAIN b |-> FromInt(b[i].lo)]
          /\ close = [i \in DOMAIN b |-> FromInt(b[i].cl)]
    /\ period \in 1..MaxPeriod
    /\ std_dev = 2 /\ macdPeriods = <<>>
    /\ out = NoCall
    /\ SarIdle
    /\ SessIdle
    /\ RestIdle

NextBars ==
    \/ Call_TI_calculate_atr
    \/ Call_TI_calculate_stochastic
    \/ Call_TI_calculate_adx
    \/ Call_TI_calculate_bollinger_bands

SpecBars == InitBars /\ [][NextBars]_vars

----------------------------------------------------------------------------
(* TechnicalIndicators.calculate_volume_indicators on a volume and a close  *)
(* series of the same length.                                               *)

\* lines 166-175: the OBV loop
TI_obv(vol, cl) ==
    Extend(LAMBDA obv, i :
               IF i = 1 THEN vol[1]
               ELSE IF FGt(cl[i], cl[i - 1]) THEN FAdd(obv[i - 1], vol[i])
               ELSE IF FLt(cl[i], cl[i - 1]) THEN FSub(obv[i - 1], vol[i])
               ELSE obv[i - 1],
           <<>>, Len(vol))
\* line 181: typical_price = (close + close.shift() + close.shift(2)) / 3
TI_typical_price(cl) ==
    LET one == Shift(cl)
        two == Shift(one)
    IN  Series(Len(cl), LAMBDA i : DivInt(FAdd(FAdd(cl[i], one[i]), two[i]), 3))
\* line 182: vwap = (typical_price * volume).cumsum() / volume.cumsum()
TI_vwap(vol, cl) ==
    LET typical_price == TI_typical_price(cl)
        weighted == Series(Len(vol), LAMBDA i : FMul(typical_price[i], vol[i]))
    IN  SDiv(CumSum(weighted), CumSum(vol))
\* calculate_volume_indicators(volume, close); volume.iloc[0] raises IndexError
\* on an empty series
TI_calculate_volume_indicators(vol, cl) ==
    IF Len(vol) = 0 THEN [raised |-> TRUE, obv |-> <<>>, vwap |-> <<>>, volume_ma |-> <<>>]
    ELSE [raised |-> FALSE, obv |-> TI_obv(vol, cl), vwap |-> TI_vwap(vol, cl),
          volume_ma |-> RollingMean(vol, 20)]

VolLevels == 1..2
\* a close and a positive volume at every bar
VolSeries == UNION {[1..n -> [cl : IndPrices, vol : VolLevels]] : n \in 0..MaxBars}

Call_TI_calculate_volume_indicators ==
    Call("TI.calculate_volume_indicators", TI_calculate_volume_indicators(volume, close),
         IF Len(volume) = 0 THEN <<>> ELSE [typical_price |-> TI_typical_price(close)])

InitVol ==
    /\ \E b \in VolSeries :
          /\ close = [i \in DOMAIN b |-> FromInt(b[i].cl)]
          /\ volume = [i \in DOMAIN b |-> FromInt(b[i].vol)]
    /\ high = <<>> /\ low = <<>>
    /\ IndIdle
    /\ SarIdle
    /\ SessIdle
    /\ LevelsIdle
    /\ ServicesIdle

NextVol == Call_TI_calculate_volume_indicators

SpecVol == InitVol /\ [][NextVol]_vars

----------------------------------------------------------------------------
(* TechnicalIndicators.calculate_support_resistance on a frame with the     *)
(* columns High, Low and Close (the series high, low and close).            *)

\* the last w positions of s: Series.tail(w)
LastN(s, w) == SubSeq(s, Len(s) - w + 1, Len(s))
\* a variant of sort_values that leaves the prices in the order of the frame
KeepOrder(s) == s
\* Series.sort_values() and sorted(list): position k holds the value that has
\* fewer than k values below it and at least k values not above it
SortValues(s) ==
    LET below(v) == Cardinality({i \in DOMAIN s : FLt(s[i], v)})
        upto(v) == Cardinality({i \in DOMAIN s : FLe(s[i], v)})
    IN  Series(Len(s), LAMBDA k :
            CHOOSE v \in {s[i] : i \in DOMAIN s} : below(v) < k /\ k <= upto(v))
\* s in reverse order
Reverse(s) == Series(Len(s), LAMBDA i : s[Len(s) + 1 - i])
\* list[:n]
FirstN(s, n) == SubSeq(s, 1, IF n < Len(s) THEN n ELSE Len(s))
\* lines 366-374: the loop over the prices in order, after price i: the groups
\* closed so far and the open cluster
SR_clusters(prices, limit) ==
    Extend(LAMBDA before, i :
               IF i = 1 THEN [groups |-> <<>>, cluster |-> <<prices[1]>>]
               ELSE LET last == before[i - 1]
                        top == last.cluster[Len(last.cluster)]
                    IN  IF FLe(FAbs(FSub(prices[i], top)), limit)
                        THEN [groups |-> last.groups,
                              cluster |-> Append(last.cluster, prices[i])]
                        ELSE [groups |-> Append(last.groups, last.cluster),
                              cluster |-> <<prices[i]>>],
           <<>>, Len(prices))
\* lines 356-380: price_groups of the concatenated prices
SR_price_groups(all_prices) ==
    LET prices_sorted == SortValues(all_prices)
        limit == FMul(FSub(prices_sorted[Len(all_prices)], prices_sorted[1]), Frac(1, 100))
        done == SR_clusters(prices_sorted, limit)[Len(all_prices)]
    IN  Append(done.groups, done.cluster)
\* lines 380-381: the sorted means of the groups of more than one price
SR_levels(all_prices) ==
    LET groups == SelectSeq(SR_price_groups(all_prices), LAMBDA g : Len(g) > 1)
    IN  SortValues(Series(Len(groups), LAMBDA i :
                       DivInt(SumTo(groups[i], 1, Len(groups[i])), Len(groups[i]))))
\* lines 384-391: the levels on either side of current_price, nearest first
SR_split(levels, current_price, n) ==
    [supports |-> FirstN(Reverse(SortValues(
                      SelectSeq(levels, LAMBDA x : FLt(x, current_price)))), n),
     resistances |-> FirstN(SortValues(
                      SelectSeq(levels, LAMBDA x : FGt(x, current_price))), n)]
\* calculate_support_resistance(df, window, num_levels), window >= 1
TI_calculate_support_resistance(hi, lo, cl, window, n) ==
    IF Len(cl) < window THEN [supports |-> <<>>, resistances |-> <<>>]
    ELSE SR_split(SR_levels(LastN(hi, window) \o LastN(lo, window) \o LastN(cl, window)),
                  cl[Len(cl)], n)

LevelPrices == {100, 101, 150, 200}
\* a bar: low <= close <= high
LevelShapes ==
    {b \in [lo : LevelPrices, cl : LevelPrices, hi : LevelPrices] : b.lo <= b.cl /\ b.cl <= b.hi}
LevelSeries == UNION {[1..n -> LevelShapes] : n \in 0..MaxLevelBars}

\* one call; out.loc holds the levels of the same prices listed in reverse
Call_TI_calculate_support_resistance ==
    Call("TI.calculate_support_resistance",
         TI_calculate_support_resistance(high, low, close, period, num_levels),
         IF Len(close) < period THEN <<>>
         ELSE [all_prices |-> LastN(high, period) \o LastN(low, period) \o LastN(close, period),
               levels |-> SR_levels(LastN(high, period) \o LastN(low, period)
                                    \o LastN(close, period)),
               reversed |-> SR_levels(Reverse(LastN(high, period) \o LastN(low, period)
                                              \o LastN(close, period)))])

InitLevels ==
    /\ \E b \in LevelSeries :
          /\ high = [i \in DOMAIN b |-> FromInt(b[i].hi)]
          /\ low = [i \in DOMAIN b |-> FromInt(b[i].lo)]
          /\ close = [i \in DOMAIN b |-> FromInt(b[i].cl)]
    /\ period \in 1..MaxLevelBars
    /\ num_levels \in 1..2
    /\ std_dev = 0 /\ macdPeriods = <<>> /\ out = NoCall
    /\ SarIdle
    /\ SessIdle
    /\ VolumeIdle
    /\ ServicesIdle

NextLevels == Call_TI_calculate_support_resistance

SpecLevels == InitLevels /\ [][NextLevels]_vars

----------------------------------------------------------------------------
(* FastCache (data_fetcher.py): a memory cache over a directory of files.    *)
(* cache.memory maps a key to (data, timestamp), cache.access_times a key to *)
(* the time of its last access, cache.disk a key to its file (data, mtime).  *)
(* Ages are in units of the clock; the files are read and written without    *)
(* error.                                                                    *)

\* a value that is cached or handed back: it names its source, its ticker (or
\* its key) and its rows
Frame(name, ticker, answer) == [source |-> name, ticker |-> ticker, rows |-> answer]
\* f without the keys of gone
Without(f, gone) == [k \in DOMAIN f \ gone |-> f[k]]
\* f[key] = value
Store(f, key, value) == (key :> value) @@ f

\* _cleanup_memory, lines 109-117: the keys of the len(_memory) - _max_memory_items
\* oldest items of _access_times are popped from _memory and _access_times
FC_cleanup_memory(c) ==
    LET excess == Cardinality(DOMAIN c.memory) - MaxMemoryItems
        older(k) == {j \in DOMAIN c.access_times : c.access_times[j] < c.access_times[k]}
        to_remove == IF excess > 0
                     THEN {k \in DOMAIN c.access_times : Cardinality(older(k)) < excess}
                     ELSE {}
    IN  [cache |-> [c EXCEPT !.memory = Without(c.memory, to_remove),
                             !.access_times = Without(c.access_times, to_remove)],
         evicted |-> to_remove \cap DOMAIN c.memory]

\* get(key, max_age_hours), lines 59-90, called at time t
FC_get(c, key, max_age, t) ==
    IF key \in DOMAIN c.memory /\ t - c.memory[key].timestamp < max_age
    THEN [cache |-> [c EXCEPT !.access_times = Store(c.access_times, key, t)],
          ret |-> c.memory[key].data, evicted |-> {}]
    ELSE LET c1 == [c EXCEPT !.memory = Without(c.memory, {key})]
         IN  IF key \notin DOMAIN c1.disk
             THEN [cache |-> c1, ret |-> None, evicted |-> {}]
             ELSE IF t - c1.disk[key].mtime < max_age
             THEN LET data == c1.disk[key].data
                      r == FC_cleanup_memory(
                               [c1 EXCEPT !.memory = Store(c1.memory, key,
                                                          [data |-> data, timestamp |-> t]),
                                          !.access_times = Store(c1.access_times, key, t)])
                  IN  [cache |-> r.cache, ret |-> data, evicted |-> r.evicted]
             ELSE [cache |-> [c1 EXCEPT !.disk = Without(c1.disk, {key})],
                   ret |-> None, evicted |-> {}]

\* set(key, data), lines 92-107, called at time t
FC_set(c, key, data, t) ==
    LET r == FC_cleanup_memory(
                 [c EXCEPT !.memory = Store(c.memory, key, [data |-> data, timestamp |-> t]),
                           !.access_times = Store(c.access_times, key, t)])
    IN  [cache |-> [r.cache EXCEPT !.disk = Store(r.cache.disk, key,
                                                 [data |-> data, mtime |-> t])],
         ret |-> None, evicted |-> r.evicted]

\* clear(), lines 119-127
FC_clear(c) == EmptyCache

CacheKeys == {"k1", "k2", "k3", "k4"}
\* max_age_hours: an age entries reach, and one they do not
MaxAges == {2, MaxClock + 1}

CacheCall(op, key, r) ==
    /\ clock < MaxClock
    /\ cache' = r.cache
    /\ cacheOut' = [op |-> op, key |-> key, ret |-> r.ret, evicted |-> r.evicted]
    /\ clock' = clock + 1
    /\ UNCHANGED <<seriesVars, sarVars, indVars, sessVars, levelVars, fetchVars,
                   managerVars, retryVars>>

Call_FC_get == \E key \in CacheKeys : \E max_age \in MaxAges :
                   CacheCall("get", key, FC_get(cache, key, max_age, clock))
Call_FC_set == \E key \in CacheKeys :
                   CacheCall("set", key, FC_set(cache, key, Frame("caller", key, "rows"), clock))
Call_FC_clear == CacheCall("clear", "", [cache |-> FC_clear(cache), ret |-> None, evicted |-> {}])

InitCache ==
    /\ cache = EmptyCache /\ clock = 0 /\ cacheOut = NoCacheCall
    /\ FetchIdle /\ ManagerIdle /\ RetryIdle
    /\ high = <<>> /\ low = <<>> /\ close = <<>>
    /\ SarIdle /\ IndIdle /\ SessIdle /\ IndicatorsIdle

NextCache == Call_FC_get \/ Call_FC_set \/ Call_FC_clear

SpecCache == InitCache /\ [][NextCache]_vars

----------------------------------------------------------------------------
(* DataSource, YFinanceSource, MockSource and OptimizedFetcher               *)
(* (data_fetcher.py).  A frame or an info is a record that names its source  *)
(* and its ticker; None is None; errors_seen is history: the errors a       *)
(* source has marked since it was made.                                       *)

\* Config.SOURCE_PRIORITIES, lines 23-29
Priority(name) == IF name = "yfinance" THEN 4 ELSE 0

\* DataSource.is_available, lines 149-150
DS_is_available(src) == src.enabled /\ src.error_count < ErrorLimit
\* DataSource._mark_error, lines 152-155
DS_mark_error(src) ==
    [src EXCEPT !.error_count = @ + 1,
                !.errors_seen = @ + 1,
                !.enabled = IF src.error_count + 1 >= ErrorLimit THEN FALSE ELSE @]
\* a _mark_success without its max(0, ...)
DS_mark_success_unclamped(src) == [src EXCEPT !.error_count = @ - 1]
\* DataSource._mark_success, lines 157-158
DS_mark_success(src) ==
    [src EXCEPT !.error_count = IF @ - 1 > 0 THEN @ - 1 ELSE 0]

\* YFinanceSource._get_yf, lines 168-176: the import succeeds (installed) or not
YF_get_yf(src, installed) ==
    IF src.yf # "None" THEN src
    ELSE IF installed THEN [src EXCEPT !.yf = "module"]
    ELSE [src EXCEPT !.yf = "False", !.enabled = FALSE]

\* what yfinance may answer: rows, rows whose Close is all NaN, no row, an exception
YfAnswers == {"rows", "nan_rows", "empty", "raises"}

\* YFinanceSource.get_stock_data, lines 178-204
YF_get_stock_data(src, ticker, installed, answer) ==
    LET s1 == YF_get_yf(src, installed)
    IN  IF s1.yf = "False" \/ ~DS_is_available(s1) THEN [src |-> s1, df |-> None]
        ELSE IF answer = "raises" THEN [src |-> DS_mark_error(s1), df |-> None]
        ELSE IF answer = "empty" THEN [src |-> s1, df |-> None]
        ELSE [src |-> DS_mark_success(s1), df |-> Frame("yfinance", ticker, answer)]
\* YFinanceSource.get_stock_info, lines 206-236: stock.info holds 'symbol'
\* ("rows"), does not, or raises
YF_get_stock_info(src, ticker, installed, answer) ==
    LET s1 == YF_get_yf(src, installed)
    IN  IF s1.yf = "False" \/ ~DS_is_available(s1) THEN [src |-> s1, df |-> None]
        ELSE IF answer = "raises" THEN [src |-> DS_mark_error(s1), df |-> None]
        ELSE IF answer = "rows"
        THEN [src |-> DS_mark_success(s1), df |-> Frame("yfinance", ticker, "info")]
        ELSE [src |-> s1, df |-> None]

\* MockSource.get_stock_data, lines 247-281
Mock_get_stock_data(src, ticker, interval) ==
    IF interval # "1d" THEN [src |-> src, df |-> None]
    ELSE [src |-> [src EXCEPT !.cache = @ \cup {ticker}], df |-> Frame("mock", ticker, "rows")]
\* MockSource.get_stock_info, lines 283-298
Mock_get_stock_info(src, ticker) == [src |-> src, df |-> Frame("mock", ticker, "info")]

\* OptimizedFetcher._clean_data, lines 423-445: the rows without a Close are dropped
OF_clean_data(d) == IF d.rows = "nan_rows" THEN [d EXCEPT !.rows = "empty"] ELSE d

\* the sources in ascending priority
OF_sources_ascending == <<"mock", "yfinance">>
\* OptimizedFetcher.__init__, lines 305-309: the sources, sorted by priority, highest first
OF_sources ==
    LET made == <<"yfinance", "mock">>
    IN  IF Priority(made[1]) >= Priority(made[2]) THEN made ELSE <<made[2], made[1]>>

\* source.get_stock_data(ticker, period, interval) or source.get_stock_info(ticker)
SourceCall(op, name, src, ticker, interval, installed, answer) ==
    IF op = "get_stock_data"
    THEN IF name = "yfinance" THEN YF_get_stock_data(src, ticker, installed, answer)
         ELSE Mock_get_stock_data(src, ticker, interval)
    ELSE IF name = "yfinance" THEN YF_get_stock_info(src, ticker, installed, answer)
         ELSE Mock_get_stock_info(src, ticker)

RECURSIVE OF_try_sources(_, _, _, _, _, _, _, _)
\* lines 324-339 and 355-366: the loop over self.sources from position i on;
\* st holds the sources, the cache, what is returned and the sources gone through
OF_try_sources(st, i, op, key, ticker, interval, world, t) ==
    IF i > Len(OF_sources) \/ st.ret # None THEN st
    ELSE LET name == OF_sources[i]
             src == st.sources[name]
         IN  IF ~DS_is_available(src)
             THEN OF_try_sources([st EXCEPT !.trace = Append(@, [name |-> name, got |-> "skipped"])],
                                 i + 1, op, key, ticker, interval, world, t)
             ELSE LET r == SourceCall(op, name, src, ticker, interval, world.installed, world.answer)
                      srcs == [st.sources EXCEPT ![name] = r.src]
                      usable == r.df # None /\ OF_clean_data(r.df).rows # "empty"
                  IN  IF usable
                      THEN [sources |-> srcs,
                            cache |-> FC_set(st.cache, key, OF_clean_data(r.df), t).cache,
                            ret |-> OF_clean_data(r.df),
                            trace |-> Append(st.trace, [name |-> name, got |-> "data"])]
                      ELSE OF_try_sources(
                               [st EXCEPT !.sources = srcs,
                                          !.trace = Append(@, [name |-> name,
                                                               got |-> IF r.df = None THEN "nothing"
                                                                       ELSE "unclean"])],
                               i + 1, op, key, ticker, interval, world, t)

\* get_stock_data (lines 312-342) and get_stock_info (lines 344-368), called at time t
OF_get(srcs, c, op, key, max_age, ticker, interval, world, t) ==
    LET cached == FC_get(c, key, max_age, t)
    IN  IF cached.ret # None
        THEN [sources |-> srcs, cache |-> cached.cache, ret |-> cached.ret,
              hit |-> TRUE, trace |-> <<>>]
        ELSE LET st == OF_try_sources([sources |-> srcs, cache |-> cached.cache,
                                       ret |-> None, trace |-> <<>>],
                                      1, op, key, ticker, interval, world, t)
             IN  [sources |-> st.sources, cache |-> st.cache, ret |-> st.ret,
                  hit |-> FALSE, trace |-> st.trace]

Tickers == {"AAPL"}
Intervals == {"1d", "1h"}
\* what the environment does during a call: whether yfinance can be imported
\* and what it answers
Worlds == [installed : BOOLEAN, answer : YfAnswers]
\* cache_key, lines 315 and 346
DataKey(ticker, interval) == "data_" \o ticker \o "_6mo_" \o interval
InfoKey(ticker) == "info_" \o ticker

FetchCall(op, key, r) ==
    /\ clock < MaxFetches
    /\ sources' = r.sources
    /\ cache' = r.cache
    /\ fetchOut' = [op |-> op, key |-> key, ret |-> r.ret, hit |-> r.hit, trace |-> r.trace]
    /\ clock' = clock + 1
    /\ UNCHANGED <<cacheOut, seriesVars, sarVars, indVars, sessVars, levelVars,
                   managerVars, retryVars>>

Call_OF_get_stock_data ==
    \E ticker \in Tickers : \E interval \in Intervals : \E world \in Worlds :
        \E r \in {OF_get(sources, cache, "get_stock_data", DataKey(ticker, interval),
                          CacheDurationHistory, ticker, interval, world, clock)} :
            FetchCall("get_stock_data", DataKey(ticker, interval), r)
Call_OF_get_stock_info ==
    \E ticker \in Tickers : \E world \in Worlds :
        \E r \in {OF_get(sources, cache, "get_stock_info", InfoKey(ticker),
                          CacheDurationInfo, ticker, "", world, clock)} :
            FetchCall("get_stock_info", InfoKey(ticker), r)
\* clear_cache, lines 448-451
Call_OF_clear_cache ==
    FetchCall("clear_cache", "", [sources |-> sources, cache |-> FC_clear(cache),
                                  ret |-> None, hit |-> FALSE, trace |-> <<>>])

InitFetch ==
    /\ sources = NewSources /\ fetchOut = NoFetch
    /\ CacheIdle /\ ManagerIdle /\ RetryIdle
    /\ high = <<>> /\ low = <<>> /\ close = <<>>
    /\ SarIdle /\ IndIdle /\ SessIdle /\ IndicatorsIdle

NextFetch == Call_OF_get_stock_data \/ Call_OF_get_stock_info \/ Call_OF_clear_cache

SpecFetch == InitFetch /\ [][NextFetch]_vars

----------------------------------------------------------------------------
(* CacheManager (cache_manager.py): a memory cache over a directory of       *)
(* files.  An item is (value, timestamp, ttl); the files are read, written   *)
(* and removed without error.                                                *)

\* a validity test that keeps an item for ttl seconds inclusive
CM_is_valid_inclusive(item, t) == t - item.timestamp <= item.ttl
\* _is_valid, lines 196-204, at time t
CM_is_valid(item, t) == t - item.timestamp < item.ttl

\* get(key, default), lines 34-76, at time t
CM_get(m, key, default, t) ==
    IF key \in DOMAIN m.memory_cache /\ CM_is_valid(m.memory_cache[key], t)
    THEN [manager |-> m, ret |-> m.memory_cache[key].value]
    ELSE LET m1 == [m EXCEPT !.memory_cache = Without(m.memory_cache, {key})]
         IN  IF key \notin DOMAIN m1.disk THEN [manager |-> m1, ret |-> default]
             ELSE IF CM_is_valid(m1.disk[key], t)
             THEN [manager |-> [m1 EXCEPT !.memory_cache =
                                              Store(m1.memory_cache, key, m1.disk[key])],
                   ret |-> m1.disk[key].value]
             ELSE [manager |-> [m1 EXCEPT !.disk = Without(m1.disk, {key})],
                   ret |-> default]

\* the ttl of a set: default_ttl when ttl is None (lines 87-88)
NoTtl == -1
EffectiveTtl(ttl) == IF ttl = NoTtl THEN DefaultTtl ELSE ttl
\* set(key, value, ttl), lines 78-108, at time t
CM_set(m, key, value, ttl, t) ==
    LET item == [value |-> value, timestamp |-> t, ttl |-> EffectiveTtl(ttl)]
    IN  [memory_cache |-> Store(m.memory_cache, key, item),
         disk |-> Store(m.disk, key, item)]

\* delete(key), lines 110-138
CM_delete(m, key) ==
    [manager |-> [memory_cache |-> Without(m.memory_cache, {key}),
                  disk |-> Without(m.disk, {key})],
     ret |-> key \in DOMAIN m.memory_cache \/ key \in DOMAIN m.disk]

\* clear(), lines 140-158
CM_clear(m) == EmptyManager

ManagerKeys == {"a", "b"}
ManagerValues == {"v1", "v2"}
Ttls == {NoTtl, 1, 3}
\* the default a get is called with
Default == "default"

ManagerCall(op, key, m, ret) ==
    /\ manager' = m
    /\ managerOut' = [op |-> op, key |-> key, ret |-> ret, time |-> clock]
    /\ UNCHANGED <<clock, cache, cacheOut, seriesVars, sarVars, indVars, sessVars,
                   levelVars, fetchVars, retryVars>>

Call_CM_get ==
    \E key \in ManagerKeys :
        /\ ManagerCall("get", key, CM_get(manager, key, Default, clock).manager,
                       CM_get(manager, key, Default, clock).ret)
        /\ UNCHANGED latest
Call_CM_set ==
    \E key \in ManagerKeys : \E value \in ManagerValues : \E ttl \in Ttls :
        /\ ManagerCall("set", key, CM_set(manager, key, value, ttl, clock), "None")
        /\ latest' = Store(latest, key, [value |-> value, timestamp |-> clock,
                                         ttl |-> EffectiveTtl(ttl)])
Call_CM_delete ==
    \E key \in ManagerKeys :
        /\ ManagerCall("delete", key, CM_delete(manager, key).manager,
                       IF CM_delete(manager, key).ret THEN "True" ELSE "False")
        /\ latest' = Without(latest, {key})
Call_CM_clear ==
    /\ ManagerCall("clear", "", CM_clear(manager), "None")
    /\ latest' = <<>>
\* a second passes
Elapse ==
    /\ clock < MaxSeconds
    /\ clock' = clock + 1
    /\ UNCHANGED <<cache, cacheOut, managerVars, seriesVars, sarVars, indVars, sessVars,
                   levelVars, fetchVars, retryVars>>

InitManager ==
    /\ manager = EmptyManager /\ latest = <<>> /\ managerOut = NoManagerCall
    /\ CacheIdle /\ FetchIdle /\ RetryIdle
    /\ high = <<>> /\ low = <<>> /\ close = <<>>
    /\ SarIdle /\ IndIdle /\ SessIdle /\ IndicatorsIdle

NextManager == Call_CM_get \/ Call_CM_set \/ Call_CM_delete \/ Call_CM_clear \/ Elapse

SpecManager == InitManager /\ [][NextManager]_vars

----------------------------------------------------------------------------
(* retry_operation (app.py): the wrapper around a function, one invocation   *)
(* of the function per step.  An invocation returns a value, raises an       *)
(* Exception, or raises a BaseException that "except Exception" lets through. *)

Returns == {[kind |-> "returns", value |-> "r1"], [kind |-> "returns", value |-> "r2"]}
Raises == {[kind |-> "raises", value |-> "e1"], [kind |-> "raises", value |-> "e2"]}
RaisesBase == {[kind |-> "raises_base", value |-> "KeyboardInterrupt"]}
Outcomes == Returns \cup Raises \cup RaisesBase

\* a loop whose last attempt swallows its exception and leaves the loop
RO_attempt_fallthrough(r, o) ==
    LET r1 == [r EXCEPT !.invoked = Append(@, o)]
    IN  IF o.kind = "returns" THEN [r1 EXCEPT !.status = "returned", !.result = o.value]
        ELSE IF o.kind = "raises_base" THEN [r1 EXCEPT !.status = "raised", !.result = o.value]
        ELSE [r1 EXCEPT !.attempt = @ + 1]
\* lines 91-98: one iteration of "for attempt in range(max_retries)", in which
\* func answers o
RO_attempt(r, o) ==
    LET r1 == [r EXCEPT !.invoked = Append(@, o)]
    IN  IF o.kind = "returns" THEN [r1 EXCEPT !.status = "returned", !.result = o.value]
        ELSE IF o.kind = "raises_base" THEN [r1 EXCEPT !.status = "raised", !.result = o.value]
        ELSE IF r.attempt = r.max_retries - 1
        THEN [r1 EXCEPT !.status = "raised", !.result = o.value]
        ELSE [r1 EXCEPT !.attempt = @ + 1]
\* line 99: "return func(*args, **kwargs)" after the loop
RO_last_try(r, o) ==
    [r EXCEPT !.invoked = Append(@, o),
              !.status = IF o.kind = "returns" THEN "returned" ELSE "raised",
              !.result = o.value]

RetryStep(r) ==
    /\ retry' = r
    /\ UNCHANGED <<seriesVars, sarVars, indVars, sessVars, levelVars, cacheVars,
                   fetchVars, managerVars>>

\* the loop of the wrapper, lines 91-98
RetryAttempt ==
    /\ retry.status = "running"
    /\ retry.attempt < retry.max_retries
    /\ \E o \in Outcomes : RetryStep(RO_attempt(retry, o))
\* the call after the loop, line 99
RetryLastTry ==
    /\ retry.status = "running"
    /\ retry.attempt >= retry.max_retries
    /\ \E o \in Outcomes : RetryStep(RO_last_try(retry, o))

InitRetry ==
    /\ \E n \in 0..MaxRetries :
          retry = [max_retries |-> n, attempt |-> 0, invoked |-> <<>>,
                   status |-> "running", result |-> "None"]
    /\ CacheIdle /\ FetchIdle /\ ManagerIdle
    /\ high = <<>> /\ low = <<>> /\ close = <<>>
    /\ SarIdle /\ IndIdle /\ SessIdle /\ IndicatorsIdle

NextRetry == RetryAttempt \/ RetryLastTry

SpecRetry == InitRetry /\ [][NextRetry]_vars

----------------------------------------------------------------------------
(* The analysis session: FastTechnicalAnalysis(frame), then calls of        *)
(* calculate_all and a call of get_summary; or analyse on the same data.    *)
(* get_summary and analyse write nothing of the session, so a run ends at   *)
(* the first of them: a later call would find the session as it was.        *)

SessPrices == 1..4
SessHeads == {2, 3}
\* the lengths around the windows of the program: 2 (signals), 14 (RSI),
\* 20 (MA_20, Bollinger), 35 (MACD of analyse), 50 (MA_50).  No frame reaches
\* the 200 bars of MA_200.
SessLens == {0, 1, 2, 3, 14, 20, 35, 50}
\* n closes: c on every bar but the last ones, which are tail
CloseSeries(n, c, tail) ==
    Series(n, LAMBDA i : FromInt(IF i > n - Len(tail) THEN tail[i - (n - Len(tail))] ELSE c))
\* n volumes: 1 on every bar but the last
VolumeSeries(n, last) == Series(n, LAMBDA i : FromInt(IF i = n THEN last ELSE 1))
Smaller(a, b) == IF a < b THEN a ELSE b
\* the last values of an RSI column the caller's frame already carries
RsiLevels == {NaN} \cup {FromInt(x) : x \in {29, 30, 31, 69, 70, 71}}
\* a two-bar frame with Close, Volume and an RSI column of its own: _calculate_rsi
\* returns before writing on fewer than 14 bars, so the signal rules read it
FramesWithRsi ==
    {[n |-> 2, col |-> ("Close" :> <<FromInt(a), FromInt(b)>>)
                       @@ ("Volume" :> VolumeSeries(2, 1))
                       @@ ("RSI" :> <<NaN, r>>)] :
        a \in SessPrices, b \in SessPrices, r \in RsiLevels}
\* the frames a caller hands in: pd.DataFrame(), Close alone, or Close and Volume
Frames ==
    LET closes == UNION {{CloseSeries(n, c, t) :
                             c \in SessHeads, t \in [1..Smaller(n, MaxTail) -> SessPrices]} :
                         n \in SessLens}
    IN  {NoFrame}
        \cup {[n |-> Len(cl), col |-> ("Close" :> cl)] : cl \in closes}
        \cup {[n |-> Len(cl), col |-> ("Close" :> cl) @@ ("Volume" :> VolumeSeries(Len(cl), v))] :
                 cl \in closes, v \in {1, 2}}
        \cup FramesWithRsi

\* calculate_all()
CalculateAll ==
    /\ returned.op \in {"none", "calculate_all"}
    /\ calls < MaxCalls
    /\ \E r \in {FTA_calculate_all(df, results)} :
          /\ df' = r.df
          /\ results' = r.results
          /\ returned' = [op |-> "calculate_all", raised |-> r.raised, val |-> r.df]
    /\ calculated' = TRUE
    /\ calls' = calls + 1
    /\ frame' = CallersFrame(frame, df')
    /\ UNCHANGED <<seriesVars, sarVars, indVars, restVars>>

\* get_summary()
GetSummary ==
    /\ returned.op \in {"none", "calculate_all"}
    /\ \E r \in {FTA_get_summary(df, results)} :
          returned' = [op |-> "get_summary", raised |-> r.raised, val |-> r.val]
    /\ UNCHANGED <<frame, df, results, calculated, calls, seriesVars, sarVars, indVars, restVars>>

\* app.py's analyse on the closes of the same frame
Analyse ==
    /\ returned.op = "none"
    /\ Has(frame, "Close")
    /\ \E r \in {analyse(frame.col["Close"])} :
          returned' = [op |-> "analyse", raised |-> r.raised, val |-> r.val]
    /\ UNCHANGED <<frame, df, results, calculated, calls, seriesVars, sarVars, indVars, restVars>>

\* the state after FastTechnicalAnalysis(frame): self.df = df.copy(), self.results = {}
InitSess ==
    /\ frame \in Frames
    /\ df = FTA_init(frame).df
    /\ results = NoColumns
    /\ calculated = FALSE
    /\ calls = 0
    /\ returned = NothingReturned
    /\ high = <<>> /\ low = <<>> /\ close = <<>>
    /\ SarIdle
    /\ IndIdle
    /\ RestIdle

NextSess == CalculateAll \/ GetSummary \/ Analyse

SpecSess == InitSess /\ [][NextSess]_vars

----------------------------------------------------------------------------
(* Properties *)

\* high and low both rise strictly up to a peak and fall strictly after it
RiseThenFall ==
    \E pk \in 2..(Len(high) - 1) :
        /\ \A i \in 1..(pk - 1) : FLt(high[i], high[i + 1]) /\ FLt(low[i], low[i + 1])
        /\ \A i \in pk..(Len(high) - 1) : FGt(high[i], high[i + 1]) /\ FGt(low[i], low[i + 1])
\* the bars at which the computed sar[i] was greater than low[i]
CrossBars == {i \in 2..Len(high) : FGt(sarRaw[i], low[i])}
Least(S) == CHOOSE x \in S : \A y \in S : x <= y

\* C1: on a path that rises and then falls, once calculate_parabolic_sar has
\* returned, the trend has flipped exactly once (Bullish to Bearish), at the first
\* bar whose computed sar[i] is greater than low[i].
C1_FlipsOnceAtFirstCross ==
    (SarDone /\ RiseThenFall /\ CrossBars # {})
        => (sarFlips = <<Least(CrossBars)>> /\ trend = -1)

RsiCalls == {"TI.calculate_rsi", "ATA.calculate_rsi"}
MacdCalls == {"TI.calculate_macd", "ATA.calculate_macd"}
BollingerCalls == {"TI.calculate_bollinger_bands", "ATA.calculate_bollinger_bands"}
\* the minimum window of the calculator that was called
MinWindow == IF out.fn \in MacdCalls THEN macdPeriods[2] ELSE period
\* every position of every series the call returned
AllUndefined == \A c \in DOMAIN out.ret : \A i \in DOMAIN out.ret[c] : IsNaN(out.ret[c][i])

\* C2: a calculator (RSI, MACD, Bollinger) called on a series shorter than its
\* minimum window returns series that are undefined at every position.
C2_ShortInputAllUndefined ==
    (out.fn \in RsiCalls \cup MacdCalls \cup BollingerCalls /\ Len(close) < MinWindow)
        => AllUndefined

\* C3: every defined element of an RSI series lies in [0, 100].
C3_RsiInRange ==
    out.fn \in RsiCalls =>
        \A i \in DOMAIN out.ret.rsi :
            \/ IsNaN(out.ret.rsi[i])
            \/ FLe(Num(0), out.ret.rsi[i]) /\ FLe(out.ret.rsi[i], FromInt(100))
\* TechnicalIndicators.calculate_rsi has returned a value strictly inside the range
C3_Witness ==
    /\ out.fn = "TI.calculate_rsi"
    /\ \E i \in DOMAIN out.ret.rsi :
          FLt(Num(0), out.ret.rsi[i]) /\ FLt(out.ret.rsi[i], FromInt(100))

\* C4: where the average loss of the RSI window is 0 and the average gain is
\* positive, the RSI is 100.
C4_ZeroLossIs100 ==
    (out.fn \in RsiCalls /\ Len(close) >= period) =>
        \A i \in DOMAIN out.ret.rsi :
            (FEq(out.loc.loss[i], Num(0)) /\ FGt(out.loc.gain[i], Num(0)))
                => out.ret.rsi[i] = FromInt(100)

AfterCalculateAll == returned.op = "calculate_all"
AfterGetSummary == returned.op = "get_summary"
AfterAnalyse == returned.op = "analyse"
\* d holds no value: it has no rows
NoRows(d) == d.n = 0 /\ \A c \in DOMAIN d.col : Len(d.col[c]) = 0
\* self.results.get('signals', [])
SignalsOf(res) == IF "signals" \in DOMAIN res THEN res["signals"] ELSE <<>>

\* C5, as stated: calculate_all signals a failure to its caller exactly when
\* the frame has zero bars.
C5_EmptyInputSignalled == AfterCalculateAll => (returned.raised <=> frame.n = 0)

\* C5, amended: calculate_all never raises; on a frame of zero bars it returns
\* a frame of zero rows and no signal, computing no value.
C5_NeverRaises ==
    AfterCalculateAll =>
        /\ ~returned.raised
        /\ frame.n = 0 => (NoRows(returned.val) /\ NoRows(df) /\ SignalsOf(results) = <<>>)
\* calculate_all has returned on a frame that has a Close column and no row
C5_Witness ==
    /\ AfterCalculateAll
    /\ frame.n = 0
    /\ Has(frame, "Close")
    /\ ~returned.raised

\* C6: calculate_all on an empty frame returns an empty frame without raising,
\* and get_summary called after it returns the empty mapping.
C6_EmptyFrameEmptySummary ==
    /\ (AfterCalculateAll /\ frame.n = 0) => (~returned.raised /\ returned.val.n = 0)
    /\ (AfterGetSummary /\ calculated /\ frame.n = 0)
           => (~returned.raised /\ returned.val = NoColumns /\ df.n = 0)
\* get_summary has returned {} after calculate_all on pd.DataFrame()
C6_Witness ==
    /\ AfterGetSummary
    /\ calculated
    /\ frame = NoFrame
    /\ returned.val = NoColumns

IndicatorColumns ==
    {"MA_20", "MA_50", "MA_200", "RSI", "MACD", "MACD_Signal", "MACD_Hist",
     "BB_Middle", "BB_Upper", "BB_Lower", "Volume_MA20", "OBV"}

\* C7: the frame calculate_all returns on a non-empty series holds every
\* indicator column, one position per bar.
C7_EveryColumnPresent ==
    (AfterCalculateAll /\ frame.n > 0 /\ Has(frame, "Close") /\ Has(frame, "Volume")) =>
        \A c \in IndicatorColumns :
            Has(returned.val, c) /\ Len(returned.val.col[c]) = frame.n

\* every signal of list a is in list b
Included(a, b) == \A i \in DOMAIN a : \E j \in DOMAIN b : b[j] = a[i]

\* C8: after calculate_all on a frame of closes, whatever else is missing, a
\* signal list has been produced and it holds the signals of every rule whose
\* own inputs are there.
C8_RulesSkipIndependently ==
    (AfterCalculateAll /\ Has(frame, "Close")) =>
        /\ "signals" \in DOMAIN results
        /\ df.n >= 2 =>
              /\ Included(FTA_rsi_signals(df), results["signals"])
              /\ Included(FTA_macd_signals(df), results["signals"])
              /\ Included(FTA_volume_signals(df), results["signals"])

MacdTitles == {"MACD Croisement Haussier", "MACD Croisement Baissier", "Signal MACD"}
HasSignal(list, type, titles) ==
    \E i \in DOMAIN list : list[i].type = type /\ list[i].title \in titles
\* the rule of the claim on the last two positions of the MACD and signal lines
MacdRule(list, macd, sig, n) ==
    /\ HasSignal(list, "success", MacdTitles)
           <=> (FLe(macd[n - 1], sig[n - 1]) /\ FGt(macd[n], sig[n]))
    /\ HasSignal(list, "danger", MacdTitles)
           <=> (FGe(macd[n - 1], sig[n - 1]) /\ FLt(macd[n], sig[n]))
\* the rule on the signals of FastTechnicalAnalysis
MacdRuleOfSession ==
    (AfterCalculateAll /\ "signals" \in DOMAIN results /\ df.n >= 2) =>
        MacdRule(results["signals"], df.col["MACD"], df.col["MACD_Signal"], df.n)
\* the rule on the signals of analyse
MacdRuleOfAnalyse ==
    (AfterAnalyse /\ ~returned.raised /\ frame.n >= 2) =>
        \E m \in {ATA_calculate_macd(frame.col["Close"], 12, 26, 9)} :
            MacdRule(returned.val, m.macd, m.signal, frame.n)

\* C9: a bullish MACD signal is emitted exactly when previous macd <= previous
\* signal and current macd > current signal, a bearish one exactly when previous
\* macd >= previous signal and current macd < current signal.
C9_MacdCrossRule == MacdRuleOfSession /\ MacdRuleOfAnalyse

TrendTitles == {"Tendance Haussiere", "Tendance Baissiere"}
TrendSignals(list) == {i \in DOMAIN list : list[i].title \in TrendTitles}
\* the rule of the claim on the last values of MA_20 and MA_50
TrendRule(list, ma20, ma50) ==
    IF ~IsNaN(ma20) /\ ~IsNaN(ma50)
    THEN \E i \in DOMAIN list :
            /\ TrendSignals(list) = {i}
            /\ list[i].type = IF FGt(ma20, ma50) THEN "success" ELSE "warning"
    ELSE TrendSignals(list) = {}
\* the last value of column c, undefined when the column is absent
LastOf(d, c) == IF Has(d, c) /\ d.n > 0 THEN d.col[c][d.n] ELSE NaN
\* the rule on the signals of FastTechnicalAnalysis
TrendRuleOfSession ==
    (AfterCalculateAll /\ "signals" \in DOMAIN results) =>
        TrendRule(results["signals"], LastOf(df, "MA_20"), LastOf(df, "MA_50"))
\* the rule on the signals of analyse
TrendRuleOfAnalyse ==
    (AfterAnalyse /\ ~returned.raised) =>
        TrendRule(returned.val,
                  ATA_calculate_moving_average(frame.col["Close"], 20)[frame.n],
                  ATA_calculate_moving_average(frame.col["Close"], 50)[frame.n])

\* C10: when MA_20 and MA_50 are both defined on the last row exactly one trend
\* signal is emitted, success if MA_20 > MA_50 and warning otherwise; when either
\* is undefined no trend signal is emitted.
C10_OneTrendSignal == TrendRuleOfSession /\ TrendRuleOfAnalyse

RsiTitles == {"RSI Surachat", "RSI Survente", "RSI Sous-vente"}
RsiSignals(list) == {i \in DOMAIN list : list[i].title \in RsiTitles}
\* the rule of the claim on the last value of the RSI
RsiRule(list, rsi) ==
    IF ~IsNaN(rsi) /\ FGt(rsi, FromInt(70))
    THEN \E i \in DOMAIN list : RsiSignals(list) = {i} /\ list[i].type = "danger"
    ELSE IF ~IsNaN(rsi) /\ FLt(rsi, FromInt(30))
    THEN \E i \in DOMAIN list : RsiSignals(list) = {i} /\ list[i].type = "success"
    ELSE RsiSignals(list) = {}
\* the rule on the signal list of FastTechnicalAnalysis, once it was generated
RsiRuleOfSession ==
    (AfterCalculateAll /\ "signals" \in DOMAIN results) =>
        RsiRule(results["signals"], LastOf(df, "RSI"))
\* the rule on the signal list of analyse
RsiRuleOfAnalyse ==
    (AfterAnalyse /\ ~returned.raised) =>
        RsiRule(returned.val, ATA_calculate_rsi(frame.col["Close"], 14)[frame.n])
\* C11: on the last row an RSI above 70 yields exactly one danger RSI signal,
\* an RSI below 30 exactly one success RSI signal, and any other RSI (exactly
\* 70, exactly 30, undefined) yields no RSI signal.
C11_RsiSignalRule == RsiRuleOfSession /\ RsiRuleOfAnalyse
\* a generated list without RSI signal on an RSI of exactly 70
C11_Witness ==
    /\ AfterCalculateAll /\ "signals" \in DOMAIN results
    /\ LastOf(df, "RSI") = FromInt(70)
    /\ RsiSignals(results["signals"]) = {}
\* one danger signal of the session on an RSI above 70
C11_Overbought ==
    /\ AfterCalculateAll /\ "signals" \in DOMAIN results
    /\ FGt(LastOf(df, "RSI"), FromInt(70))
    /\ Cardinality(RsiSignals(results["signals"])) = 1
\* one success signal of analyse on an RSI below 30
C11_Oversold ==
    /\ AfterAnalyse /\ ~returned.raised
    /\ \E i \in DOMAIN returned.val :
           returned.val[i] = Signal("success", "RSI Sous-vente")

\* C12: calculate_all on the same series yields identical tables and signal
\* lists: a call on a session that has calculated before (a step that counts
\* one more call) leaves self.df and self.results as the call before left them,
\* and returns the same table.
C12_CalculateAllRepeatable ==
    [][(calls >= 1 /\ calls' = calls + 1) =>
           (df' = df /\ results' = results /\ returned'.val = returned.val)]_vars
\* a second call on a session whose first call generated signals
C12_Witness ==
    /\ AfterCalculateAll /\ calls = 2
    /\ "signals" \in DOMAIN results /\ Len(results["signals"]) > 0

AllBollingerCalls == BollingerCalls \cup {"FTA._calculate_bollinger_bands"}
\* position i of the bands returned: all three are defined
BandsDefined(i) ==
    ~IsNaN(out.ret.upper[i]) /\ ~IsNaN(out.ret.middle[i]) /\ ~IsNaN(out.ret.lower[i])
\* C14: at every index where the upper, middle and lower Bollinger bands are all
\* defined, upper >= middle >= lower.
C14_BandsOrdered ==
    out.fn \in AllBollingerCalls =>
        \A i \in DOMAIN out.ret.middle :
            BandsDefined(i) =>
                /\ FGe(out.ret.upper[i], out.ret.middle[i])
                /\ FGe(out.ret.middle[i], out.ret.lower[i])
\* bands that are defined and apart at the last bar
C14_Witness ==
    /\ out.fn \in AllBollingerCalls /\ Len(close) > 0
    /\ BandsDefined(Len(close))
    /\ FGt(out.ret.upper[Len(close)], out.ret.middle[Len(close)])
    /\ FGt(out.ret.middle[Len(close)], out.ret.lower[Len(close)])

\* every close equals 100
ConstantClose == Len(close) > 0 /\ \A i \in DOMAIN close : close[i] = FromInt(100)
\* the bands of a constant series: 100 wherever all are defined, and no %B
ConstantBands ==
    (out.fn \in AllBollingerCalls /\ ConstantClose) =>
        \A i \in DOMAIN close :
            /\ BandsDefined(i) =>
                   /\ out.ret.upper[i] = FromInt(100)
                   /\ out.ret.middle[i] = FromInt(100)
                   /\ out.ret.lower[i] = FromInt(100)
            /\ "percent_b" \in DOMAIN out.ret => IsNaN(out.ret.percent_b[i])
\* the RSI of a constant series: undefined at every position
ConstantRsi ==
    (out.fn \in RsiCalls /\ ConstantClose) => \A i \in DOMAIN close : IsNaN(out.ret.rsi[i])
\* C15: for a constant close series (every close 100) the Bollinger bands are
\* upper = middle = lower = 100 wherever defined and %B is undefined, and the
\* RSI is undefined at every position.
C15_ConstantSeries == ConstantBands /\ ConstantRsi
\* the bands of a constant series, defined at the last bar
ConstantBandsReached ==
    out.fn \in AllBollingerCalls /\ ConstantClose /\ BandsDefined(Len(close))

\* each close of s is strictly higher than the one before
StrictlyRising(s) == \A i \in 2..Len(s) : FGt(s[i], s[i - 1])
\* the claim on an OBV series obv of closes c and volumes v
ObvRule(obv, c, v) ==
    /\ ~IsNaN(obv[1])
    /\ StrictlyRising(c) =>
           /\ \A i \in 2..Len(obv) : FGe(obv[i], obv[i - 1])
           /\ obv[Len(obv)] = SumTo(v, 1, Len(v))
\* C16: OBV is defined from bar 0, and on a series of strictly rising closes
\* OBV is non-decreasing and the final OBV is the sum of the volumes of all
\* bars, bar 0 included.
C16_ObvFromBarZero ==
    (AfterCalculateAll /\ Has(df, "OBV") /\ df.n > 0) =>
        ObvRule(df.col["OBV"], df.col["Close"], df.col["Volume"])
\* the OBV of the session on three rising closes
C16_RisingReached ==
    /\ AfterCalculateAll /\ Has(df, "OBV") /\ df.n = 3
    /\ StrictlyRising(df.col["Close"])

\* the three implementations of the MACD
AllMacdCalls == MacdCalls \cup {"FTA._calculate_macd"}
\* C17: the MACD histogram equals macd minus signal line at every index, in
\* every implementation and on a short history too (an undefined histogram
\* beside an undefined difference).
C17_HistogramIsDifference ==
    out.fn \in AllMacdCalls =>
        /\ DOMAIN out.ret.histogram = DOMAIN close
        /\ \A i \in DOMAIN close :
               out.ret.histogram[i] = FSub(out.ret.macd[i], out.ret.signal[i])
\* a histogram that is a number other than zero at the last bar, beside a
\* signal line other than zero
C17_Witness ==
    /\ out.fn \in AllMacdCalls /\ Len(close) > 0
    /\ IsNum(out.ret.histogram[Len(close)]) /\ out.ret.histogram[Len(close)] # Num(0)
    /\ out.ret.signal[Len(close)] # Num(0)
\* the histogram of a history shorter than the slow period
C17_ShortReached ==
    /\ out.fn \in MacdCalls /\ Len(close) > 0 /\ Len(close) < macdPeriods[2]

\* C18: on bars with low <= high every defined element of the ATR is >= 0,
\* and the true range of bar 0, which has no previous close, is
\* high[0] - low[0].
C18_AtrNotNegative ==
    out.fn = "TI.calculate_atr" =>
        /\ \A i \in DOMAIN out.ret.atr :
               ~IsNaN(out.ret.atr[i]) => FGe(out.ret.atr[i], Num(0))
        /\ Len(high) > 0 => out.loc.tr[1] = FSub(high[1], low[1])
\* an ATR defined on a window that holds bar 0, after a close outside the
\* range of the next bar
C18_Witness ==
    /\ out.fn = "TI.calculate_atr" /\ Len(high) >= 2 /\ period = 2
    /\ IsNum(out.ret.atr[2]) /\ FGt(out.ret.atr[2], Num(0))
    /\ FGt(close[1], high[2])

\* position i of a Stochastic call: the range of the window is flat, and
\* the bar is a bar (low <= close <= high)
FlatRange(i) ==
    /\ IsNum(out.loc.highest_high[i])
    /\ out.loc.highest_high[i] = out.loc.lowest_low[i]
    /\ FLe(low[i], close[i]) /\ FLe(close[i], high[i])
\* position i of a Bollinger call: the bands are defined and the bandwidth is zero
ZeroBandwidth(i) == IsNum(out.ret.upper[i]) /\ out.ret.upper[i] = out.ret.lower[i]
\* position i of an ADX call: +DI and -DI are defined and their sum is zero
ZeroDenominator(i) == FAdd(out.ret.plus_di[i], out.ret.minus_di[i]) = Num(0)
C20_BollingerReached ==
    /\ out.fn = "TI.calculate_bollinger_bands" /\ Len(close) > 0
    /\ ZeroBandwidth(Len(close))
\* an ADX call with +DI + -DI = 0 at the last bar
C20_AdxReached ==
    /\ out.fn = "TI.calculate_adx" /\ Len(high) >= period * 2 /\ Len(high) > 0
    /\ ZeroDenominator(Len(high))
\* the flat range of a window whose last close lies outside its bar
FlatRangeAnyClose ==
    (out.fn = "TI.calculate_stochastic" /\ Len(high) >= period) =>
        \A i \in DOMAIN high :
            (IsNum(out.loc.highest_high[i]) /\ out.loc.highest_high[i] = out.loc.lowest_low[i])
                => IsNaN(out.ret.k[i])

\* the keys test_get_summary expects in the mapping
SummaryKeys ==
    {"last_price", "rsi", "macd", "bb_position", "atr", "volume_ratio", "signals", "trend"}
\* get_summary has returned after calculate_all on Close and Volume of 50 bars
SummaryOfFullHistory ==
    /\ AfterGetSummary /\ calculated /\ ~returned.raised
    /\ frame.n >= 50 /\ Has(frame, "Close") /\ Has(frame, "Volume")
\* C19: after calculate_all on a series with sufficient history, get_summary
\* returns a mapping with all of the keys last_price, rsi, macd, bb_position,
\* atr, volume_ratio, signals and trend, last_price being a float and signals
\* a list.
C19_SummaryKeys ==
    SummaryOfFullHistory =>
        /\ SummaryKeys \subseteq DOMAIN returned.val
        /\ IsNum(returned.val.last_price)
        /\ DOMAIN returned.val.signals = 1..Len(returned.val.signals)
\* the summary of a full history holds the six keys of lines 156-161
C19_SixKeys ==
    SummaryOfFullHistory =>
        DOMAIN returned.val =
            {"last_price", "rsi", "macd", "bb_position", "volume_ratio", "signals"}
\* a summary of a full history with a number as last_price
C19_Reached == SummaryOfFullHistory /\ IsNum(returned.val.last_price)

\* the typical price the claim describes at position i: the average of the
\* closes available among bars i, i - 1 and i - 2
GracefulTypical(i) ==
    IF i = 1 THEN close[1]
    ELSE IF i = 2 THEN DivInt(FAdd(close[1], close[2]), 2)
    ELSE DivInt(FAdd(FAdd(close[i], close[i - 1]), close[i - 2]), 3)
\* the VWAP the claim describes at position i: typical price x volume and
\* volume, both accumulated over bars 1..i
GracefulVwap(i) ==
    FDiv(SumTo([j \in 1..i |-> FMul(GracefulTypical(j), volume[j])], 1, i),
         SumTo(volume, 1, i))
VolumeCallReturned == out.fn = "TI.calculate_volume_indicators" /\ ~out.ret.raised
\* C21: VWAP is a number at bars 0 and 1 of a series with positive volume (the
\* typical price averaged over the one or two closes available), and from
\* bar 2 on it is cumulative typical price x volume over the same bars as the
\* cumulative volume that divides it.
C21_VwapFromBarZero ==
    VolumeCallReturned =>
        /\ \A i \in DOMAIN close : i <= 2 => IsNum(out.ret.vwap[i])
        /\ \A i \in DOMAIN close : out.ret.vwap[i] = GracefulVwap(i)
\* the VWAP is undefined at bars 0 and 1
C21_UndefinedAtFirstBars ==
    VolumeCallReturned => \A i \in DOMAIN close : i <= 2 => IsNaN(out.ret.vwap[i])
\* from bar 2 on the dividend accumulates bars 2.. and the divisor bars 0..
C21_DivisorFromBarZero ==
    VolumeCallReturned =>
        \A i \in DOMAIN close : i >= 3 =>
            out.ret.vwap[i] =
                FDiv(SumTo([j \in 1..i |-> IF j <= 2 THEN Num(0)
                                           ELSE FMul(out.loc.typical_price[j], volume[j])], 1, i),
                     SumTo(volume, 1, i))
\* a call on four bars
C21_Reached == VolumeCallReturned /\ Len(close) = 4

\* calculate_support_resistance has returned on a frame of at least window bars
LevelsReturned == out.fn = "TI.calculate_support_resistance" /\ Len(close) >= period
\* x is the mean of a cluster of two prices or more: of all the prices of the
\* window between two bounds
ClusterMean(x, prices) ==
    \E a \in DOMAIN prices : \E b \in DOMAIN prices :
        LET members == {i \in DOMAIN prices : FLe(prices[a], prices[i]) /\ FLe(prices[i], prices[b])}
        IN  /\ Cardinality(members) >= 2
            /\ x = DivInt(Num(SumTo([i \in DOMAIN prices |->
                                        IF i \in members THEN prices[i] ELSE Num(0)],
                                    1, Len(prices)).v),
                          Cardinality(members))
\* the levels of list that the call kept are its nearest to the last close
NearestKept(kept, all) ==
    \A x \in {all[i] : i \in DOMAIN all} :
        (x \notin {kept[i] : i \in DOMAIN kept}) =>
            \A j \in DOMAIN kept :
                FGe(FAbs(FSub(x, close[Len(close)])), FAbs(FSub(kept[j], close[Len(close)])))
\* C22: on a frame of at least window bars calculate_support_resistance
\* returns only means of clusters of two prices or more; every support is
\* strictly below the last close and every resistance strictly above it; each
\* list has at most num_levels entries, nearest to the last close first; and
\* the levels do not depend on the order in which the prices are listed.
C22_SupportResistance ==
    LevelsReturned =>
        /\ \A i \in DOMAIN out.ret.supports :
               /\ ClusterMean(out.ret.supports[i], out.loc.all_prices)
               /\ FLt(out.ret.supports[i], close[Len(close)])
               /\ i > 1 => FLt(out.ret.supports[i], out.ret.supports[i - 1])
        /\ \A i \in DOMAIN out.ret.resistances :
               /\ ClusterMean(out.ret.resistances[i], out.loc.all_prices)
               /\ FGt(out.ret.resistances[i], close[Len(close)])
               /\ i > 1 => FGt(out.ret.resistances[i], out.ret.resistances[i - 1])
        /\ Len(out.ret.supports) <= num_levels
        /\ Len(out.ret.resistances) <= num_levels
        /\ NearestKept(out.ret.supports,
                       SelectSeq(out.loc.levels, LAMBDA x : FLt(x, close[Len(close)])))
        /\ NearestKept(out.ret.resistances,
                       SelectSeq(out.loc.levels, LAMBDA x : FGt(x, close[Len(close)])))
        /\ out.loc.reversed = out.loc.levels
\* two levels below the last close, one of them the mean of two unequal
\* prices, of which the call keeps the nearer
C22_Witness ==
    /\ LevelsReturned /\ num_levels = 1
    /\ out.ret.supports = <<FromInt(150)>>
    /\ \E i \in DOMAIN out.loc.levels : out.loc.levels[i] = Frac(201, 2)

\* a loop iteration of calculate_parabolic_sar is taken, on the bar at position sarI
SarIteration == trend # 0 /\ sarI >= 2 /\ sarI <= Len(high) /\ sarI' = sarI + 1
\* the iteration reverses the trend
SarReverses == trend' # trend
\* the iteration sets a new extreme point
SarNewExtreme == ep' # ep
\* C23: for 0 < acceleration <= maximum the acceleration factor starts at
\* acceleration and stays within [acceleration, maximum] after every bar; a bar
\* that reverses the trend resets it to acceleration, a bar that sets a new
\* extreme point raises it by acceleration, capped at maximum, and any other
\* bar leaves it as it is.
C23_AccelerationFactor ==
    [][/\ (trend = 0 /\ Len(high) >= 2) => af' = acceleration
       /\ SarIteration =>
              /\ FLe(acceleration, af') /\ FLe(af', maximum)
              /\ af' = IF SarReverses THEN acceleration
                       ELSE IF SarNewExtreme THEN PyMin(FAdd(af, acceleration), maximum)
                       ELSE af]_vars
\* the factor was raised on a new extreme point and the cap at maximum acted
C23_Witness ==
    /\ trend = 1 /\ sarI > 2
    /\ ep # high[1]
    /\ FGt(FAdd(acceleration, acceleration), maximum)
    /\ af = maximum
\* the factor was raised twice below the cap
C23_RaisedTwice ==
    /\ trend = 1 /\ sarI > 3
    /\ acceleration = Frac(2, 100)
    /\ af = Frac(6, 100)

\* the extreme point of the bar at position sarI, once the bar has updated it
SarExtreme(i) == IF FGt(high[i], ep) THEN high[i] ELSE ep
C24_NeverBearish == trend # -1

\* C25: an RSI series is undefined at every index below period (positions
\* 1..period), and every RSI implementation returns the same series.
C25_WilderRsi ==
    out.fn \in RsiCalls =>
        /\ \A i \in DOMAIN out.ret.rsi : i <= period => IsNaN(out.ret.rsi[i])
        /\ out.ret.rsi = TI_calculate_rsi(close, period)
        /\ out.ret.rsi = ATA_calculate_rsi(close, period)
\* TechnicalIndicators.calculate_rsi alone: undefined at every index below period
C25_RollingUndefinedBelowPeriod ==
    out.fn = "TI.calculate_rsi" =>
        \A i \in DOMAIN out.ret.rsi : i <= period => IsNaN(out.ret.rsi[i])
\* AdvancedTechnicalAnalyzer.calculate_rsi is a number at every position
C25_AnalyzerAlwaysDefined ==
    out.fn = "ATA.calculate_rsi" => \A i \in DOMAIN out.ret.rsi : ~IsNaN(out.ret.rsi[i])

\* C26: after every FastCache.get or FastCache.set the memory cache holds at
\* most _max_memory_items entries, and an entry that is evicted is the least
\* recently accessed of the entries in memory.
C26_MemoryBounded ==
    cacheOut.op \in {"get", "set"} => Cardinality(DOMAIN cache.memory) <= MaxMemoryItems
\* _access_times keeps keys that _memory has lost
C26_StaleAccessTimes == DOMAIN cache.access_times \subseteq DOMAIN cache.memory
\* the memory cache never holds more than one entry over the limit for longer
\* than one call
C26_AtMostOneOver == Cardinality(DOMAIN cache.memory) <= MaxMemoryItems + 1

SourceNames == {"yfinance", "mock"}
\* what a source that gave no usable data is recorded with
NoUsableData == {"skipped", "nothing", "unclean"}
\* the cache holds a fresh entry under key
FreshInCache(key, max_age) ==
    \/ key \in DOMAIN cache.memory /\ clock - cache.memory[key].timestamp < max_age
    \/ key \in DOMAIN cache.disk /\ clock - cache.disk[key].mtime < max_age
\* what the last get_stock_data went through and returned
StockDataReturned ==
    LET tr == fetchOut.trace
    IN  /\ \A i \in DOMAIN tr : \A j \in DOMAIN tr :
               i < j => Priority(tr[i].name) > Priority(tr[j].name)
        /\ \A i \in DOMAIN tr :
               tr[i].got = "skipped" => ~DS_is_available(sources[tr[i].name])
        /\ \A j \in DOMAIN tr :
               tr[j].got # "skipped" =>
                   \A name \in SourceNames :
                       Priority(name) > Priority(tr[j].name) =>
                           \E i \in 1..(j - 1) : tr[i].name = name /\ tr[i].got \in NoUsableData
        /\ (fetchOut.ret # None /\ ~fetchOut.hit) =>
               /\ tr # <<>>
               /\ tr[Len(tr)].got = "data"
               /\ fetchOut.ret.source = tr[Len(tr)].name
               /\ fetchOut.ret.rows = "rows"
               /\ \A i \in 1..(Len(tr) - 1) : tr[i].got \in NoUsableData
               /\ fetchOut.key \in DOMAIN cache.memory
               /\ cache.memory[fetchOut.key].data = fetchOut.ret
               /\ cache.disk[fetchOut.key].data = fetchOut.ret
        /\ fetchOut.ret = None =>
               /\ ~fetchOut.hit
               /\ \A name \in SourceNames :
                      \E i \in DOMAIN tr : tr[i].name = name /\ tr[i].got \in NoUsableData
        /\ fetchOut.hit => (tr = <<>> /\ fetchOut.ret # None)
\* a call of get_stock_data is made
StockDataCalled == fetchOut'.op = "get_stock_data" /\ clock' = clock + 1
\* C27: get_stock_data goes through the sources in strictly descending
\* priority and skips the unavailable ones; a source is queried only after
\* every source of higher priority was skipped or gave no usable data; the
\* first non-empty cleaned result is returned and stored under the cache key;
\* None is returned only when every source was skipped or gave nothing; and on
\* a fresh cache hit no source is queried.
C27_SourceFallback ==
    /\ [](fetchOut.op = "get_stock_data" => StockDataReturned)
    /\ [][StockDataCalled =>
              /\ \A i \in DOMAIN fetchOut'.trace :
                     fetchOut'.trace[i].got # "skipped"
                         => DS_is_available(sources[fetchOut'.trace[i].name])
              /\ FreshInCache(fetchOut'.key, CacheDurationHistory) =>
                     /\ fetchOut'.hit /\ fetchOut'.trace = <<>>
                     /\ sources' = sources]_vars
\* yfinance answered rows without a Close and the mock source's data was returned
C27_Witness ==
    /\ fetchOut.op = "get_stock_data"
    /\ fetchOut.trace = <<[name |-> "yfinance", got |-> "unclean"],
                          [name |-> "mock", got |-> "data"]>>
    /\ fetchOut.ret.source = "mock"
\* a call was served from the cache
C27_HitReached == fetchOut.op = "get_stock_data" /\ fetchOut.hit
\* a call returned None: yfinance was skipped and the mock source gave nothing
C27_NoneReached ==
    /\ fetchOut.op = "get_stock_data" /\ fetchOut.ret = None
    /\ fetchOut.trace = <<[name |-> "yfinance", got |-> "skipped"],
                          [name |-> "mock", got |-> "nothing"]>>

\* C28: a source's error count is never negative, and a source whose error
\* count has reached 5 is disabled: is_available() is false then and in every
\* later state.
C28_DisabledForGood ==
    /\ [](\A name \in SourceNames :
             /\ sources[name].error_count >= 0
             /\ sources[name].error_count >= ErrorLimit => ~DS_is_available(sources[name]))
    /\ [][\A name \in SourceNames :
              (sources[name].error_count >= ErrorLimit \/ ~sources[name].enabled)
                  => (~sources'[name].enabled /\ ~DS_is_available(sources'[name]))]_vars
\* yfinance has marked 5 errors, is disabled, and a later call has skipped it
C28_Witness ==
    /\ sources.yfinance.error_count = ErrorLimit
    /\ ~sources.yfinance.enabled
    /\ fetchOut.trace # <<>>
    /\ fetchOut.trace[1] = [name |-> "yfinance", got |-> "skipped"]
\* a success has lowered a positive error count
C28_SuccessReached ==
    /\ sources.yfinance.errors_seen > sources.yfinance.error_count
    /\ sources.yfinance.enabled
\* a source that has marked 5 errors since it was made, successes between
\* them or not, is unavailable
C28_FiveErrorsInAll ==
    sources.yfinance.errors_seen >= ErrorLimit => ~DS_is_available(sources.yfinance)

\* the last set of key that no delete or clear followed is younger than its ttl
\* at time t
LiveAt(key, t) == key \in DOMAIN latest /\ t - latest[key].timestamp < latest[key].ttl
\* C29: get(key) returns the value of the most recent set(key, value, ttl)
\* exactly when fewer than ttl seconds have passed since that set and no
\* delete(key) or clear() came after it, and the default otherwise; after a get
\* that found the entry expired the key is neither in the memory cache nor on
\* the disk.
C29_GetReturnsLatestSet ==
    managerOut.op = "get" =>
        /\ managerOut.ret = IF LiveAt(managerOut.key, managerOut.time)
                            THEN latest[managerOut.key].value
                            ELSE Default
        /\ ~LiveAt(managerOut.key, managerOut.time) =>
               /\ managerOut.key \notin DOMAIN manager.memory_cache
               /\ managerOut.key \notin DOMAIN manager.disk
\* a get has found an expired entry, set with a ttl of its own, and dropped it
C29_Witness ==
    /\ managerOut.op = "get" /\ managerOut.ret = Default
    /\ managerOut.key \in DOMAIN latest
    /\ latest[managerOut.key].ttl = 1
    /\ managerOut.time = latest[managerOut.key].timestamp + 1
    /\ managerOut.key \notin DOMAIN manager.disk
\* a get has returned the second of two values set under its key
C29_LatestReached ==
    /\ managerOut.op = "get" /\ managerOut.ret = "v2"
    /\ managerOut.time > latest[managerOut.key].timestamp
    /\ latest[managerOut.key].timestamp > 0

\* the invocations of the call that raised an Exception
AllRaise == \A i \in DOMAIN retry.invoked : retry.invoked[i].kind = "raises"
\* C30: a function wrapped by retry_operation(max_retries = n), n >= 1, is
\* invoked at most n times per call; the wrapper returns the result of the
\* first invocation that succeeds and invokes nothing after it; when n
\* invocations have raised, the n-th exception propagates and nothing more is
\* invoked.
C30_AtMostNInvocations ==
    /\ [](retry.max_retries >= 1 =>
             /\ Len(retry.invoked) <= retry.max_retries
             /\ \A i \in 1..(Len(retry.invoked) - 1) : retry.invoked[i].kind = "raises"
             /\ retry.status = "returned" =>
                    /\ retry.invoked[Len(retry.invoked)].kind = "returns"
                    /\ retry.result = retry.invoked[Len(retry.invoked)].value
             /\ (AllRaise /\ Len(retry.invoked) = retry.max_retries) =>
                    /\ retry.status = "raised"
                    /\ retry.result = retry.invoked[retry.max_retries].value
             /\ (retry.status = "running" /\ retry.invoked # <<>>) => AllRaise)
    /\ [][(retry.max_retries >= 1 /\ retry.status \in {"returned", "raised"})
              => retry' = retry]_vars
\* every one of two invocations or more has raised and the last exception has
\* propagated
C30_Witness ==
    /\ retry.max_retries >= 2
    /\ Len(retry.invoked) = retry.max_retries
    /\ AllRaise
    /\ retry.status = "raised"
    /\ retry.result = "e2" /\ retry.invoked[1].value = "e1"
\* the second invocation has succeeded and its result was returned
C30_SuccessReached ==
    /\ retry.max_retries = 3
    /\ Len(retry.invoked) = 2
    /\ retry.status = "returned" /\ retry.result = "r2"

====
